---------------------------- MODULE Spec2Model ----------------------------
(***************************************************************************)
(* Wealth-Navigator: the financial engine (finance_logic.py), the chat     *)
(* dispatcher (chat_assistant.py) and the Streamlit page (app.py).         *)
(*                                                                         *)
(* Numbers.  The Python code computes with floats and ints.  The model     *)
(* computes with exact rationals [num, den] in lowest terms (den > 0), so  *)
(* that 0.20 is 1/5, 0.42 is 21/50, and x / 12 is exact.  An int n is the  *)
(* rational n/1, as Python's n == float(n).                                *)
(***************************************************************************)
EXTENDS Integers, Sequences, FiniteSets, TLC

VARIABLES
    tax_in,     \* the monthly incomes calculate_german_income_tax is still to get
    tax_prev,   \* the call of calculate_german_income_tax before the last one
    tax_cur,    \* the last call of calculate_german_income_tax: argument, result
    mod_in,     \* the arguments apply_tax_class_modifier is to get
    mod_call,   \* the call of apply_tax_class_modifier: arguments, result
    fin_in,     \* the arguments compute_financials is to get
    fin,        \* the dict compute_financials returned
    OPENAI_API_KEY, \* chat_assistant.OPENAI_API_KEY, "" when no key is pasted
    chat_in,    \* the user_message and history generate_bot_reply is to get
    chat_pc,    \* where chat_assistant.generate_bot_reply is
    requests,   \* the messages lists given to client.chat.completions.create
    responder,  \* what the external responder did: a reply text or an exception
    rule_calls, \* how often generate_rule_based_reply has been called
    chat_reply, \* what chat_assistant.generate_bot_reply returned or raised
    app_reply,  \* what the page's generate_bot_reply(user_message) returned
    sidebar,    \* the sidebar values of the browser session
    messages,   \* st.session_state.messages, <<>> while the key is not set
    submitted,  \* history variable: the chat inputs so far, each with the
                \* sidebar values it was submitted under
    tax_tab     \* what the last run of the script put on the tax tab:
                \* tax_for_chart and min_tax_class

vars == <<tax_in, tax_prev, tax_cur, mod_in, mod_call, fin_in, fin, OPENAI_API_KEY,
          chat_in, chat_pc, requests, responder, rule_calls, chat_reply, app_reply,
          sidebar, messages, submitted, tax_tab>>

session_vars == <<sidebar, messages, submitted, tax_tab>>

chat_vars == <<OPENAI_API_KEY, chat_in, chat_pc, requests, responder, rule_calls,
               chat_reply, app_reply>>

-----------------------------------------------------------------------------
(* Rational arithmetic *)

\* Python's None.
None == [none |-> TRUE]

Abs(i) == IF i < 0 THEN -i ELSE i

RECURSIVE GCD(_, _)
GCD(a, b) == IF b = 0 THEN a ELSE GCD(b, a % b)

\* n/d in lowest terms with a positive denominator (d # 0).
Q(n, d) ==
    LET g == GCD(Abs(n), Abs(d))
        s == IF d < 0 THEN -1 ELSE 1
    IN  [num |-> s * (n \div g), den |-> s * (d \div g)]

R(i) == [num |-> i, den |-> 1]

Zero == R(0)

RAdd(x, y) ==
    LET g == GCD(x.den, y.den)
    IN  Q(x.num * (y.den \div g) + y.num * (x.den \div g), (x.den \div g) * y.den)

RNeg(x) == [num |-> -x.num, den |-> x.den]

RSub(x, y) == RAdd(x, RNeg(y))

RMul(x, y) ==
    LET a == Q(x.num, y.den)
        b == Q(y.num, x.den)
    IN  Q(a.num * b.num, a.den * b.den)

\* What a division by zero raises.
ZeroDivisionError == [raised |-> "ZeroDivisionError"]

Raised(v) == "raised" \in DOMAIN v

Called(call) == call # None

Returned(result) == result # None /\ ~Raised(result)

\* x / y; Python raises ZeroDivisionError for y = 0.
RDiv(x, y) ==
    IF y.num = 0 THEN ZeroDivisionError ELSE RMul(x, Q(y.den, y.num))

RLt(x, y) ==
    LET g == GCD(x.den, y.den)
    IN  x.num * (y.den \div g) < y.num * (x.den \div g)

RLe(x, y) == ~RLt(y, x)

RPos(x) == x.num > 0

-----------------------------------------------------------------------------
(* finance_logic.py *)

\* tax_year of the second band (annual_income - 11604) * 0.20
Band2(annual_income) == RMul(RSub(annual_income, R(11604)), Q(20, 100))

\* Band3 with the width of the second band mistyped (55165 for 55156).
Band3_WidthTypo(annual_income) ==
    RAdd(RMul(R(55165), Q(20, 100)),
         RMul(RSub(annual_income, R(66760)), Q(42, 100)))

\* tax_year of the third band (55156 * 0.20) + (annual_income - 66760) * 0.42
Band3(annual_income) ==
    RAdd(RMul(R(55156), Q(20, 100)),
         RMul(RSub(annual_income, R(66760)), Q(42, 100)))

\* Band4 without the tax of the third band.
Band4_NoThirdBand(annual_income) ==
    RAdd(RMul(R(55156), Q(20, 100)),
         RMul(RSub(annual_income, R(277825)), Q(45, 100)))

\* tax_year of the top band
Band4(annual_income) ==
    RAdd(RAdd(RMul(R(55156), Q(20, 100)), RMul(R(211065), Q(42, 100))),
         RMul(RSub(annual_income, R(277825)), Q(45, 100)))

tax_year(annual_income) ==
    IF RLe(annual_income, R(11604)) THEN Zero
    ELSE IF RLe(annual_income, R(66760)) THEN Band2(annual_income)
    ELSE IF RLe(annual_income, R(277825)) THEN Band3(annual_income)
    ELSE Band4(annual_income)

annual_income_of(monthly_income) == RMul(monthly_income, R(12))

calculate_german_income_tax(monthly_income) ==
    RDiv(tax_year(annual_income_of(monthly_income)), R(12))


\* The six tax classes of the modifiers dict, in the order of the code's list.
TaxClasses == <<"I", "II", "III", "IV", "V", "VI">>

TaxClassSet == {TaxClasses[i] : i \in 1..Len(TaxClasses)}

\* The table with the factors written as percentages.
modifiers_get_Percent(tax_class) ==
    CASE tax_class = "I" -> R(100)
      [] tax_class = "II" -> R(90)
      [] tax_class = "III" -> R(80)
      [] tax_class = "IV" -> R(100)
      [] tax_class = "V" -> R(120)
      [] tax_class = "VI" -> R(130)
      [] OTHER -> R(100)

\* modifiers[tax_class] with no default: an unknown class gets no factor.
modifiers_get_NoDefault(tax_class) ==
    CASE tax_class = "I" -> Q(100, 100)
      [] tax_class = "II" -> Q(90, 100)
      [] tax_class = "III" -> Q(80, 100)
      [] tax_class = "IV" -> Q(100, 100)
      [] tax_class = "V" -> Q(120, 100)
      [] tax_class = "VI" -> Q(130, 100)
      [] OTHER -> Zero

\* modifiers.get(tax_class, 1.00)
modifiers_get(tax_class) ==
    CASE tax_class = "I" -> Q(100, 100)
      [] tax_class = "II" -> Q(90, 100)
      [] tax_class = "III" -> Q(80, 100)
      [] tax_class = "IV" -> Q(100, 100)
      [] tax_class = "V" -> Q(120, 100)
      [] tax_class = "VI" -> Q(130, 100)
      [] OTHER -> Q(100, 100)

apply_tax_class_modifier(base_tax, tax_class) ==
    RMul(base_tax, modifiers_get(tax_class))

\* The guideline table.
RECOMMENDED_PCT ==
    [cat \in {"Rent / Housing", "Food & Groceries", "Transport",
              "Utilities & Bills", "Entertainment & Eating Out",
              "Shopping & Other"} |->
        CASE cat = "Rent / Housing" -> Q(30, 100)
          [] cat = "Food & Groceries" -> Q(15, 100)
          [] OTHER -> Q(10, 100)]

\* sum(expenses.values())
RECURSIVE SumOver(_, _)
SumOver(f, keys) ==
    IF keys = {} THEN Zero
    ELSE LET k == CHOOSE x \in keys : TRUE
         IN  RAdd(f[k], SumOver(f, keys \ {k}))

sum_values(expenses) == SumOver(expenses, DOMAIN expenses)

\* The guard written net_income != 0.
savings_rate_of_NonZero(savings, net_income) ==
    IF net_income # Zero THEN RMul(RDiv(savings, net_income), R(100)) ELSE Zero

\* savings_rate = (savings / net_income * 100) if net_income > 0 else 0
savings_rate_of(savings, net_income) ==
    IF RPos(net_income) THEN RMul(RDiv(savings, net_income), R(100)) ELSE Zero

\* The guard without goal_months > 0.
required_monthly_savings_of_NoMonthsGuard(goal_amount, goal_months) ==
    IF RPos(goal_amount) THEN RDiv(goal_amount, R(goal_months)) ELSE Zero

\* goal_amount / goal_months if goal_amount > 0 and goal_months > 0 else 0
required_monthly_savings_of(goal_amount, goal_months) ==
    IF RPos(goal_amount) /\ goal_months > 0
    THEN RDiv(goal_amount, R(goal_months))
    ELSE Zero

\* The comparison loop over the selectable classes I..V only.
tax_per_class_of_FiveClasses(base_tax) ==
    [cls \in TaxClassSet \ {"VI"} |-> apply_tax_class_modifier(base_tax, cls)]

\* for cls in ["I", ..., "VI"]: tax_per_class[cls] = apply_tax_class_modifier(...)
tax_per_class_of(base_tax) ==
    [cls \in TaxClassSet |-> apply_tax_class_modifier(base_tax, cls)]

compute_financials(gross_income, selected_tax_class, expenses, goal_amount, goal_months) ==
    LET base_tax == calculate_german_income_tax(gross_income)
        estimated_tax_selected == apply_tax_class_modifier(base_tax, selected_tax_class)
        net_income == RSub(gross_income, estimated_tax_selected)
        total_expenses == sum_values(expenses)
        savings == RSub(net_income, total_expenses)
        savings_rate == savings_rate_of(savings, net_income)
        required_monthly_savings ==
            required_monthly_savings_of(goal_amount, goal_months)
    IN  IF Raised(savings_rate) THEN savings_rate
        ELSE IF Raised(required_monthly_savings) THEN required_monthly_savings
        ELSE
        [gross_income |-> gross_income,
         selected_tax_class |-> selected_tax_class,
         base_tax |-> base_tax,
         estimated_tax_selected |-> estimated_tax_selected,
         net_income |-> net_income,
         expenses |-> expenses,
         total_expenses |-> total_expenses,
         savings |-> savings,
         savings_rate |-> savings_rate,
         goal_amount |-> goal_amount,
         goal_months |-> goal_months,
         required_monthly_savings |-> required_monthly_savings,
         tax_per_class |-> tax_per_class_of(base_tax),
         recommended_pct |-> RECOMMENDED_PCT]

-----------------------------------------------------------------------------
(* Text: str.lower, the in operator on strings, and number formatting.     *)
(* Characters outside ASCII are written in ASCII: the euro sign is EUR, a  *)
(* typographic apostrophe is ', an emoji is left out.                      *)

LowerChar(c) ==
    CASE c = "A" -> "a" [] c = "B" -> "b" [] c = "C" -> "c" [] c = "D" -> "d"
      [] c = "E" -> "e" [] c = "F" -> "f" [] c = "G" -> "g" [] c = "H" -> "h"
      [] c = "I" -> "i" [] c = "J" -> "j" [] c = "K" -> "k" [] c = "L" -> "l"
      [] c = "M" -> "m" [] c = "N" -> "n" [] c = "O" -> "o" [] c = "P" -> "p"
      [] c = "Q" -> "q" [] c = "R" -> "r" [] c = "S" -> "s" [] c = "T" -> "t"
      [] c = "U" -> "u" [] c = "V" -> "v" [] c = "W" -> "w" [] c = "X" -> "x"
      [] c = "Y" -> "y" [] c = "Z" -> "z" [] OTHER -> c

\* str.lower()
RECURSIVE Lower(_)
Lower(str) ==
    IF str = "" THEN ""
    ELSE LowerChar(SubSeq(str, 1, 1)) \o Lower(SubSeq(str, 2, Len(str)))

\* kw in text
Contains(text, kw) ==
    \E i \in 1..(Len(text) - Len(kw) + 1) : SubSeq(text, i, i + Len(kw) - 1) = kw

StartsWith(text, prefix) ==
    Len(prefix) <= Len(text) /\ SubSeq(text, 1, Len(prefix)) = prefix

DigitChar(n) == SubSeq("0123456789", n + 1, n + 1)

\* str(n) for n >= 0
RECURSIVE NatStr(_)
NatStr(n) == IF n < 10 THEN DigitChar(n) ELSE NatStr(n \div 10) \o DigitChar(n % 10)

\* str(i), f"{i}" for an int
IntStr(i) == IF i < 0 THEN "-" \o NatStr(-i) ELSE NatStr(i)

\* n >= 0 with a comma between groups of three digits
RECURSIVE Grouped(_)
Grouped(n) ==
    IF n < 1000 THEN NatStr(n)
    ELSE Grouped(n \div 1000) \o ","
         \o DigitChar((n % 1000) \div 100) \o DigitChar((n % 100) \div 10)
         \o DigitChar(n % 10)

\* a / d (a >= 0, d > 0) rounded to the nearest integer, a tie to the even one
RoundHalfEven(a, d) ==
    LET q == a \div d
        r == a % d
    IN  IF 2 * r > d THEN q + 1
        ELSE IF 2 * r < d THEN q
        ELSE q + (q % 2)

SignStr(x) == IF x.num < 0 THEN "-" ELSE ""

\* f"{x:,.0f}"
Fmt0(x) == SignStr(x) \o Grouped(RoundHalfEven(Abs(x.num), x.den))

\* f"{x:.0f}"
Fix0(x) == SignStr(x) \o NatStr(RoundHalfEven(Abs(x.num), x.den))

\* f"{x:.1f}": |x| in tenths, rounded, a tie to the even tenth
Tenths(x) ==
    LET q == Abs(x.num) \div x.den
        r == Abs(x.num) % x.den
    IN  q * 10 + RoundHalfEven(r * 10, x.den)

Fix1(x) ==
    SignStr(x) \o NatStr(Tenths(x) \div 10) \o "." \o DigitChar(Tenths(x) % 10)

\* f"{x}" of a float: repr, the shortest text that reads back as the same
\* number.  The model writes the number as num/den, which reads back as well.
Repr(x) == IntStr(x.num) \o "/" \o NatStr(x.den)

\* "\n".join(lines)
RECURSIVE Join(_)
Join(lines) ==
    IF lines = <<>> THEN ""
    ELSE IF Len(lines) = 1 THEN lines[1]
    ELSE lines[1] \o "\n" \o Join(Tail(lines))

Euro == "EUR"

-----------------------------------------------------------------------------
(* chat_assistant.py *)

\* The categories in the order of the page's expense_categories list; a dict
\* iterates in insertion order.
expense_categories ==
    <<"Rent / Housing", "Food & Groceries", "Transport", "Utilities & Bills",
      "Entertainment & Eating Out", "Shopping & Other">>

\* ctx.get("currency", default)
ctx_currency(ctx) == IF "currency" \in DOMAIN ctx THEN ctx.currency ELSE Euro

CA_GoalPrompt == "Please add a savings goal amount in the sidebar and ask again."

CA_Enough == "You are saving enough to reach the goal"

CA_NothingOverspent ==
    "Nothing looks drastically overspent, but you can still fine-tune."

CA_Help ==
    "I can help with:\n"
    \o "- Budget summary\n"
    \o "- Savings goal planning\n"
    \o "- Overspending analysis\n"
    \o "- German tax class questions\n"
    \o "Try asking: *Where am I overspending?*"

\* The savings goal branch of generate_rule_based_reply.
CA_GoalReply(ctx) ==
    LET currency == ctx_currency(ctx)
        monthly_required == ctx.required_monthly_savings
        msg == "To reach **" \o currency \o Fmt0(ctx.goal_amount) \o "** "
               \o "in **" \o IntStr(ctx.goal_months) \o " months**, you must save "
               \o "**" \o currency \o Fmt0(monthly_required) \o " per month**.\n"
    IN  IF RLe(ctx.goal_amount, Zero) THEN CA_GoalPrompt
        ELSE IF RLt(ctx.savings, monthly_required)
        THEN msg \o "Right now you save **" \o currency \o Fmt0(ctx.savings) \o "**, "
                 \o "so you're short by **" \o currency
                 \o Fmt0(RSub(monthly_required, ctx.savings)) \o "** per month."
        ELSE msg \o CA_Enough

\* The budget summary branch.
CA_SummaryReply(ctx) ==
    LET currency == ctx_currency(ctx)
    IN  Join(<<"Gross income: " \o currency \o Fmt0(ctx.gross_income),
               "Net income: " \o currency \o Fmt0(ctx.net_income),
               "Tax (Class " \o ctx.selected_tax_class \o "): " \o currency
                   \o Fmt0(ctx.estimated_tax_selected),
               "Total expenses: " \o currency \o Fmt0(ctx.total_expenses),
               "Savings: " \o currency \o Fmt0(ctx.savings) \o " ("
                   \o Fix1(ctx.savings_rate) \o "% of net income)">>)

\* pct of one category without the test of net_income
CA_Pct_Unguarded(ctx, cat) == RDiv(ctx.expenses[cat], ctx.net_income)

\* pct of one category in the overspending loop
CA_Pct(ctx, cat) ==
    IF RPos(ctx.net_income) THEN RDiv(ctx.expenses[cat], ctx.net_income) ELSE Zero

\* RECOMMENDED_PCT.get(cat, 0.10)
CA_RecPct(cat) ==
    IF cat \in DOMAIN RECOMMENDED_PCT THEN RECOMMENDED_PCT[cat] ELSE Q(10, 100)

\* The overspending loop listing a category at guideline + 0.05 as well.
RECURSIVE CA_Tips_AtOrAbove(_, _)
CA_Tips_AtOrAbove(ctx, cats) ==
    IF cats = <<>> THEN <<>>
    ELSE LET cat == Head(cats)
             pct == CA_Pct(ctx, cat)
             rec_pct == CA_RecPct(cat)
         IN  (IF RLe(RAdd(rec_pct, Q(5, 100)), pct)
              THEN <<"- " \o cat \o ": You spend " \o Fix1(RMul(pct, R(100)))
                     \o "% (recommended ~" \o Fix0(RMul(rec_pct, R(100))) \o "%).">>
              ELSE <<>>)
             \o CA_Tips_AtOrAbove(ctx, Tail(cats))

\* The tips of the overspending loop for the categories cats, in order.
RECURSIVE CA_Tips(_, _)
CA_Tips(ctx, cats) ==
    IF cats = <<>> THEN <<>>
    ELSE LET cat == Head(cats)
             pct == CA_Pct(ctx, cat)
             rec_pct == CA_RecPct(cat)
         IN  (IF RLt(RAdd(rec_pct, Q(5, 100)), pct)
              THEN <<"- " \o cat \o ": You spend " \o Fix1(RMul(pct, R(100)))
                     \o "% (recommended ~" \o Fix0(RMul(rec_pct, R(100))) \o "%).">>
              ELSE <<>>)
             \o CA_Tips(ctx, Tail(cats))

\* A category a caller of chat_assistant may add to the page's six.
ExtraCategories == <<"Pets">>

\* The keys of ctx["expenses"] in iteration order: the page's six in the
\* page's order, then the caller's own.
ExpenseKeys(expenses) ==
    SelectSeq(expense_categories \o ExtraCategories,
              LAMBDA cat : cat \in DOMAIN expenses)

\* The overspending branch.
CA_OverspendReply(ctx) ==
    LET tips == CA_Tips(ctx, ExpenseKeys(ctx.expenses))
    IN  IF tips # <<>> THEN "Areas to improve:\n\n" \o Join(tips)
        ELSE CA_NothingOverspent

\* The tax branch.
CA_TaxReply(ctx) ==
    LET currency == ctx_currency(ctx)
        base_tax == calculate_german_income_tax(ctx.gross_income)
    IN  "Here's a rough tax breakdown:\n"
        \o "- Gross: " \o currency \o Fmt0(ctx.gross_income) \o "\n"
        \o "- Base tax (no class): " \o currency \o Fmt0(base_tax) \o "\n"
        \o "- Tax class " \o ctx.selected_tax_class \o " estimate: "
        \o currency \o Fmt0(ctx.estimated_tax_selected) \o "\n"
        \o "- Net income: " \o currency \o Fmt0(ctx.net_income) \o "\n\n"
        \o "This is simplified for educational use."

\* The chain with the budget test moved before the goal test.
CA_Category_BudgetFirst(text) ==
    IF Contains(text, "summary") \/ Contains(text, "budget")
       \/ Contains(text, "overview")
    THEN "budget"
    ELSE IF Contains(text, "goal")
            \/ (Contains(text, "save") /\ Contains(text, "month"))
    THEN "goal"
    ELSE IF Contains(text, "reduce") \/ Contains(text, "overspend")
            \/ Contains(text, "improve")
    THEN "overspending"
    ELSE IF Contains(text, "tax") \/ Contains(text, "steuer") \/ Contains(text, "class")
    THEN "tax"
    ELSE "fallback"

\* The branch generate_rule_based_reply takes for the lower-cased text.
CA_Category(text) ==
    IF Contains(text, "goal") \/ (Contains(text, "save") /\ Contains(text, "month"))
    THEN "goal"
    ELSE IF Contains(text, "summary") \/ Contains(text, "budget")
            \/ Contains(text, "overview")
    THEN "budget"
    ELSE IF Contains(text, "reduce") \/ Contains(text, "overspend")
            \/ Contains(text, "improve")
    THEN "overspending"
    ELSE IF Contains(text, "tax") \/ Contains(text, "steuer") \/ Contains(text, "class")
    THEN "tax"
    ELSE "fallback"

generate_rule_based_reply(user_message, ctx) ==
    LET category == CA_Category(Lower(user_message))
    IN  CASE category = "goal" -> CA_GoalReply(ctx)
          [] category = "budget" -> CA_SummaryReply(ctx)
          [] category = "overspending" -> CA_OverspendReply(ctx)
          [] category = "tax" -> CA_TaxReply(ctx)
          [] OTHER -> CA_Help

\* A function's outcome: the value it returns, or the exception it raises.
Return(v) == [value |-> v]

Raise(e) == [raised |-> e]

\* The keys of ctx a branch of generate_rule_based_reply subscripts.
CA_KeysUsed(category, ctx) ==
    CASE category = "goal" ->
             IF "goal_amount" \in DOMAIN ctx /\ RLe(ctx.goal_amount, Zero)
             THEN {"goal_amount"}
             ELSE {"goal_amount", "required_monthly_savings", "goal_months",
                   "savings"}
      [] category = "budget" ->
             {"gross_income", "net_income", "selected_tax_class",
              "estimated_tax_selected", "total_expenses", "savings",
              "savings_rate"}
      [] category = "overspending" -> {"expenses", "net_income"}
      [] category = "tax" ->
             {"gross_income", "selected_tax_class", "estimated_tax_selected",
              "net_income"}
      [] OTHER -> {}

\* The call generate_rule_based_reply(user_message, ctx) as an outcome: a
\* subscript of a missing key raises KeyError, a division by zero raises
\* ZeroDivisionError, otherwise the reply text is returned.
rule_based_outcome(user_message, ctx) ==
    LET category == CA_Category(Lower(user_message))
    IN  IF ~(CA_KeysUsed(category, ctx) \subseteq DOMAIN ctx)
        THEN Raise("KeyError")
        ELSE IF category = "overspending"
                /\ \E cat \in DOMAIN ctx.expenses : Raised(CA_Pct(ctx, cat))
        THEN Raise("ZeroDivisionError")
        ELSE Return(generate_rule_based_reply(user_message, ctx))

\* OPENAI_ENABLED = len(OPENAI_API_KEY) > 0, with the flag always on
OPENAI_ENABLED_Always == TRUE

OPENAI_ENABLED == Len(OPENAI_API_KEY) > 0

\* client = OpenAI(api_key=OPENAI_API_KEY) if OPENAI_ENABLED else None
client == IF OPENAI_ENABLED THEN [api_key |-> OPENAI_API_KEY] ELSE None

OA_DetailKeywords ==
    {"show the calculation", "show calculation", "calculate step by step",
     "step by step", "explain in detail", "why is that", "how did you get this",
     "formula"}

wants_detail(user_message) ==
    \E kw \in OA_DetailKeywords : Contains(Lower(user_message), kw)

detail_instruction(user_message) ==
    IF ~wants_detail(user_message)
    THEN "User did NOT ask for detailed calculations. "
         \o "Answer in a compact way (max 3-5 short sentences). "
         \o "Do NOT show formulas, intermediate math steps, or long explanations. "
         \o "Give 1-3 clear, practical suggestions only."
    ELSE "User explicitly wants detailed calculations or steps. "
         \o "You may show formulas and step-by-step reasoning, but still stay focused and clear."

\* The financial snapshot text built for the model.
snapshot(ctx) ==
    Join(<<"Currency: " \o ctx_currency(ctx),
           "Gross income: " \o Repr(ctx.gross_income),
           "Net income: " \o Repr(ctx.net_income),
           "Tax class: " \o ctx.selected_tax_class,
           "Tax: " \o Repr(ctx.estimated_tax_selected),
           "Expenses: " \o Repr(ctx.total_expenses),
           "Savings: " \o Repr(ctx.savings),
           "Savings rate (% of net): " \o Repr(ctx.savings_rate),
           "Goal amount: " \o Repr(ctx.goal_amount),
           "Goal months: " \o IntStr(ctx.goal_months)>>)

OA_Persona ==
    "You are a concise, practical personal finance assistant for users in Germany.\n"
    \o "Use only the user's financial snapshot and their question.\n"
    \o "Default behaviour:\n"
    \o "- No lecture tone and no generic life advice.\n"
    \o "- No long explanations, keep it short and to the point.\n"
    \o "- If information is missing or uncertain, say so briefly.\n"
    \o "- Focus on what the user should do next, not on teaching theory."

\* history[:n], the first turns in place of the last
LastTurns_First(history, n) ==
    IF Len(history) <= n THEN history ELSE SubSeq(history, 1, n)

\* history[-n:]
LastTurns(history, n) ==
    IF Len(history) <= n THEN history
    ELSE SubSeq(history, Len(history) - n + 1, Len(history))

\* The messages list generate_openai_reply gives to the responder.
openai_messages(user_message, ctx, history) ==
    <<[role |-> "system", content |-> OA_Persona],
      [role |-> "system", content |-> "User financial snapshot:\n" \o snapshot(ctx)],
      [role |-> "system", content |-> detail_instruction(user_message)]>>
    \o [i \in 1..Len(LastTurns(history, 5)) |->
           [role |-> LastTurns(history, 5)[i].role,
            content |-> LastTurns(history, 5)[i].content]]
    \o <<[role |-> "user", content |-> user_message]>>

\* An except clause that lets the exception through.
openai_except_Reraise(e) == Raise(e)

\* except Exception as e: return f"OpenAI error: {e}\nFalling back to offline assistant."
openai_except(e) ==
    Return("OpenAI error: " \o e \o "\nFalling back to offline assistant.")

-----------------------------------------------------------------------------
(* app.py, the core calculations of the page *)

\* The page's copy with the first band ending at another allowance.
app_calculate_german_income_tax_OtherAllowance(monthly_income) ==
    LET annual_income == RMul(monthly_income, R(12))
        tax_year_ ==
            IF RLe(annual_income, R(10908)) THEN Zero
            ELSE IF RLe(annual_income, R(66760))
            THEN RMul(RSub(annual_income, R(10908)), Q(20, 100))
            ELSE IF RLe(annual_income, R(277825))
            THEN RAdd(RMul(R(55156), Q(20, 100)),
                      RMul(RSub(annual_income, R(66760)), Q(42, 100)))
            ELSE RAdd(RAdd(RMul(R(55156), Q(20, 100)), RMul(R(211065), Q(42, 100))),
                      RMul(RSub(annual_income, R(277825)), Q(45, 100)))
    IN  RDiv(tax_year_, R(12))

\* app.py's own copy of the tax function.
app_calculate_german_income_tax(monthly_income) ==
    LET annual_income == RMul(monthly_income, R(12))
        tax_year_ ==
            IF RLe(annual_income, R(11604)) THEN Zero
            ELSE IF RLe(annual_income, R(66760))
            THEN RMul(RSub(annual_income, R(11604)), Q(20, 100))
            ELSE IF RLe(annual_income, R(277825))
            THEN RAdd(RMul(R(55156), Q(20, 100)),
                      RMul(RSub(annual_income, R(66760)), Q(42, 100)))
            ELSE RAdd(RAdd(RMul(R(55156), Q(20, 100)), RMul(R(211065), Q(42, 100))),
                      RMul(RSub(annual_income, R(277825)), Q(45, 100)))
    IN  RDiv(tax_year_, R(12))

\* app.py's own copy of the class modifier.
app_apply_tax_class_modifier(base_tax, tax_class) ==
    RMul(base_tax,
         CASE tax_class = "I" -> Q(100, 100)
           [] tax_class = "II" -> Q(90, 100)
           [] tax_class = "III" -> Q(80, 100)
           [] tax_class = "IV" -> Q(100, 100)
           [] tax_class = "V" -> Q(120, 100)
           [] tax_class = "VI" -> Q(130, 100)
           [] OTHER -> Q(100, 100))

\* (goal_amount / goal_months if goal_months > 0 else 0) if goal_amount > 0 else 0
app_required_monthly_savings(goal_amount, goal_months) ==
    IF RPos(goal_amount)
    THEN (IF goal_months > 0 THEN RDiv(goal_amount, R(goal_months)) ELSE Zero)
    ELSE Zero

\* tax_for_chart: the tax of each of the six classes for the page's base tax.
app_tax_for_chart(base_tax) ==
    [cls \in TaxClassSet |-> app_apply_tax_class_modifier(base_tax, cls)]

\* min with ties going to the last key in place of the first.
app_min_tax_class_LastWins(tax_for_chart) ==
    TaxClasses[CHOOSE i \in 1..Len(TaxClasses) :
                   /\ \A j \in 1..Len(TaxClasses) :
                          RLe(tax_for_chart[TaxClasses[i]], tax_for_chart[TaxClasses[j]])
                   /\ \A j \in (i + 1)..Len(TaxClasses) :
                          tax_for_chart[TaxClasses[j]] # tax_for_chart[TaxClasses[i]]]

\* min(tax_for_chart, key=tax_for_chart.get): the first key, in the order
\* the loop inserted them, that no key has a smaller tax than.
app_min_tax_class(tax_for_chart) ==
    TaxClasses[CHOOSE i \in 1..Len(TaxClasses) :
                   /\ \A j \in 1..Len(TaxClasses) :
                          RLe(tax_for_chart[TaxClasses[i]], tax_for_chart[TaxClasses[j]])
                   /\ \A j \in 1..(i - 1) :
                          tax_for_chart[TaxClasses[j]] # tax_for_chart[TaxClasses[i]]]

\* The tax tab of one run of the script.
app_tax_tab(page) ==
    LET base_tax == app_calculate_german_income_tax(page.gross_income)
        tax_for_chart == app_tax_for_chart(base_tax)
    IN  [base_tax |-> base_tax,
         selected_tax_class |-> page.selected_tax_class,
         tax_for_chart |-> tax_for_chart,
         min_tax_class |-> app_min_tax_class(tax_for_chart)]

\* The page's recommended_pct dict.
app_recommended_pct ==
    [cat \in {expense_categories[i] : i \in 1..Len(expense_categories)} |->
        CASE cat = "Rent / Housing" -> Q(30, 100)
          [] cat = "Food & Groceries" -> Q(15, 100)
          [] OTHER -> Q(10, 100)]

\* The ctx dict generate_bot_reply builds from the page's values; page holds
\* the sidebar inputs gross_income, selected_tax_class, expenses, goal_amount,
\* goal_months and currency.
app_ctx(page) ==
    LET base_tax == app_calculate_german_income_tax(page.gross_income)
        estimated_tax_selected ==
            app_apply_tax_class_modifier(base_tax, page.selected_tax_class)
        net_income == RSub(page.gross_income, estimated_tax_selected)
        total_expenses == sum_values(page.expenses)
        savings == RSub(net_income, total_expenses)
        savings_rate ==
            IF RPos(net_income) THEN RMul(RDiv(savings, net_income), R(100)) ELSE Zero
    IN  [gross_income |-> page.gross_income,
         net_income |-> net_income,
         base_tax |-> base_tax,
         selected_tax_class |-> page.selected_tax_class,
         estimated_tax_selected |-> estimated_tax_selected,
         total_expenses |-> total_expenses,
         savings |-> savings,
         savings_rate |-> savings_rate,
         goal_amount |-> page.goal_amount,
         goal_months |-> page.goal_months,
         required_savings |->
             app_required_monthly_savings(page.goal_amount, page.goal_months),
         currency |-> page.currency,
         expenses |-> page.expenses,
         recommended_pct |-> app_recommended_pct]

\* The greeting the chat history starts with.
APP_Greeting ==
    "Hi! I'm your finance assistant (Germany edition)\n\n"
    \o "You can ask me things like:\n"
    \o "- *Is my savings goal realistic with my current net income?*\n"
    \o "- *How much should I save every month to reach my goal?*\n"
    \o "- *Can you summarise my budget?*\n"
    \o "- *Where am I overspending?*\n"
    \o "- *What does my Steuerklasse mean for my net income (roughly)?*"

\* The two appends in the reply's place before the input's.
AppendExchange_ReplyFirst(history, user_input, reply) ==
    history \o <<[role |-> "assistant", content |-> reply],
                 [role |-> "user", content |-> user_input]>>

\* st.session_state.messages after the two appends of one chat input.
AppendExchange(history, user_input, reply) ==
    history \o <<[role |-> "user", content |-> user_input],
                 [role |-> "assistant", content |-> reply]>>

APP_GoalPrompt ==
    "You haven't set a savings goal yet. Add a goal amount and timeframe in the sidebar, "
    \o "then ask me again."

APP_FixCashflow ==
    "\nRight now you are not saving anything (or you're in deficit). "
    \o "You'll need to fix your monthly cashflow first by cutting expenses "
    \o "or increasing income."

APP_Achievable ==
    "\nBased on your current numbers, this goal is **mathematically achievable**. "
    \o "Just make sure you consistently save that amount."

APP_TargetPrompt ==
    "To estimate how much to save each month, I need a goal amount and timeframe. "
    \o "Please set those in the sidebar and ask again."

APP_NeedNetIncome ==
    "I need a positive net income value to judge where you're overspending."

APP_NoneHigh ==
    "Based on simple guideline percentages, none of your categories look extremely high. "
    \o "But you can still tweak them based on your personal priorities."

APP_Help ==
    "I've read your message, but I'm still a simple rules-based bot.\n\n"
    \o "You can ask me about:\n"
    \o "- Whether your savings goal is realistic\n"
    \o "- How much to save per month\n"
    \o "- A summary of your budget\n"
    \o "- Where you might be overspending\n"
    \o "- A rough explanation of your tax class and net income\n\n"
    \o "Also try changing your numbers in the sidebar and asking again."

\* The goal branch of the page's generate_bot_reply.
APP_GoalReply(ctx) ==
    LET msg == "Your goal is **" \o ctx.currency \o Fmt0(ctx.goal_amount) \o "** "
               \o "in **" \o IntStr(ctx.goal_months) \o " months**.\n\n"
               \o "To reach that, you'd need to save about "
               \o "**" \o ctx.currency \o Fmt0(ctx.required_savings) \o " per month**.\n"
    IN  IF RLe(ctx.goal_amount, Zero) THEN APP_GoalPrompt
        ELSE IF RLe(ctx.savings, Zero) THEN msg \o APP_FixCashflow
        ELSE IF RLe(ctx.required_savings, ctx.savings) THEN msg \o APP_Achievable
        ELSE msg \o "\nCurrently you save about **" \o ctx.currency
                 \o Fmt0(ctx.savings) \o " per month**, "
                 \o "so you're short by roughly **" \o ctx.currency
                 \o Fmt0(RSub(ctx.required_savings, ctx.savings)) \o " per month**.\n"
                 \o "You could:\n"
                 \o "- Reduce expenses\n"
                 \o "- Increase income\n"
                 \o "- Extend your goal timeframe"

\* The "how much ... save" branch.
APP_TargetReply(ctx) ==
    IF RLe(ctx.goal_amount, Zero) THEN APP_TargetPrompt
    ELSE "To reach **" \o ctx.currency \o Fmt0(ctx.goal_amount) \o "** in "
         \o "**" \o IntStr(ctx.goal_months) \o " months**, you should save about "
         \o "**" \o ctx.currency \o Fmt0(ctx.required_savings) \o " per month**.\n\n"
         \o "Right now, it looks like you can save about "
         \o "**" \o ctx.currency \o Fmt0(ctx.savings) \o " per month** "
         \o "(**" \o Fix1(ctx.savings_rate) \o "%** of your net income)."

\* The category lines of the budget branch for the categories cats, in order.
RECURSIVE APP_CategoryLines(_, _)
APP_CategoryLines(ctx, cats) ==
    IF cats = <<>> THEN <<>>
    ELSE LET cat == Head(cats)
             amount == ctx.expenses[cat]
             pct == IF RPos(ctx.net_income)
                    THEN RMul(RDiv(amount, ctx.net_income), R(100))
                    ELSE Zero
         IN  <<"  - " \o cat \o ": **" \o ctx.currency \o Fmt0(amount) \o "** ("
               \o Fix1(pct) \o "% of net income)">>
             \o APP_CategoryLines(ctx, Tail(cats))

\* The budget branch.
APP_BudgetReply(ctx) ==
    Join(<<"- Gross income: **" \o ctx.currency \o Fmt0(ctx.gross_income) \o "**",
           "- Estimated tax (Class " \o ctx.selected_tax_class \o "): "
               \o "**" \o ctx.currency \o Fmt0(ctx.estimated_tax_selected) \o "**",
           "- Net income: **" \o ctx.currency \o Fmt0(ctx.net_income) \o "**",
           "- Total expenses: **" \o ctx.currency \o Fmt0(ctx.total_expenses) \o "**",
           "- Savings: **" \o ctx.currency \o Fmt0(ctx.savings) \o "** "
               \o "(" \o Fix1(ctx.savings_rate) \o "% of net income)",
           "",
           "By category:">>
         \o APP_CategoryLines(ctx, ExpenseKeys(ctx.expenses)))

\* The tips of the page's overspending loop.
RECURSIVE APP_Tips(_, _)
APP_Tips(ctx, cats) ==
    IF cats = <<>> THEN <<>>
    ELSE LET cat == Head(cats)
             actual_pct == IF RPos(ctx.net_income)
                           THEN RDiv(ctx.expenses[cat], ctx.net_income)
                           ELSE Zero
             rec_pct == IF cat \in DOMAIN ctx.recommended_pct
                        THEN ctx.recommended_pct[cat]
                        ELSE Q(10, 100)
         IN  (IF RLt(RAdd(rec_pct, Q(5, 100)), actual_pct)
              THEN <<"- **" \o cat \o "**: you spend about **"
                     \o Fix1(RMul(actual_pct, R(100))) \o "%** of your net income, "
                     \o "guideline is around **" \o Fix1(RMul(rec_pct, R(100)))
                     \o "%**.">>
              ELSE <<>>)
             \o APP_Tips(ctx, Tail(cats))

\* The overspending branch.
APP_OverspendReply(ctx) ==
    LET overspending_tips == APP_Tips(ctx, ExpenseKeys(ctx.expenses))
    IN  IF RLe(ctx.net_income, Zero) THEN APP_NeedNetIncome
        ELSE IF overspending_tips = <<>> THEN APP_NoneHigh
        ELSE "Here are the main areas where you may be overspending:\n\n"
             \o Join(overspending_tips)
             \o "\n\nTry lowering these categories slightly and see how it affects your savings."

\* The tax branch.
APP_TaxReply(ctx) ==
    LET base_tax_local == app_calculate_german_income_tax(ctx.gross_income)
    IN  "Here's a **very simplified** view of your tax situation:\n\n"
        \o "- Gross income: **" \o ctx.currency \o Fmt0(ctx.gross_income)
        \o "** per month\n"
        \o "- Base income tax (before tax class effect): "
        \o "**" \o ctx.currency \o Fmt0(base_tax_local) \o "** per month\n"
        \o "- Selected tax class: **" \o ctx.selected_tax_class \o "**\n"
        \o "- Estimated tax with this class: "
        \o "**" \o ctx.currency \o Fmt0(ctx.estimated_tax_selected) \o "** per month\n"
        \o "- Estimated net income: **" \o ctx.currency \o Fmt0(ctx.net_income)
        \o "** per month\n\n"
        \o "Remember: Real German tax also includes social contributions, church tax, "
        \o "Solidaritaetszuschlag, and more. "
        \o "Your actual tax can be quite different - this is just a teaching demo."

\* The chain with the budget test moved before the "how much" test.
APP_Category_BudgetBeforeTarget(text) ==
    IF Contains(text, "reach") \/ (Contains(text, "goal") /\ Contains(text, "save"))
    THEN "goal"
    ELSE IF Contains(text, "budget") \/ Contains(text, "overview")
            \/ Contains(text, "summary")
    THEN "budget"
    ELSE IF Contains(text, "how much") /\ Contains(text, "save")
    THEN "target"
    ELSE IF Contains(text, "overspend") \/ Contains(text, "improve")
            \/ Contains(text, "reduce") \/ Contains(text, "cut")
    THEN "overspending"
    ELSE IF Contains(text, "tax") \/ Contains(text, "steuer")
            \/ Contains(text, "steuerklasse")
    THEN "tax"
    ELSE "fallback"

\* The branch the page's generate_bot_reply takes for the lower-cased text.
APP_Category(text) ==
    IF Contains(text, "reach") \/ (Contains(text, "goal") /\ Contains(text, "save"))
    THEN "goal"
    ELSE IF Contains(text, "how much") /\ Contains(text, "save")
    THEN "target"
    ELSE IF Contains(text, "budget") \/ Contains(text, "overview")
            \/ Contains(text, "summary")
    THEN "budget"
    ELSE IF Contains(text, "overspend") \/ Contains(text, "improve")
            \/ Contains(text, "reduce") \/ Contains(text, "cut")
    THEN "overspending"
    ELSE IF Contains(text, "tax") \/ Contains(text, "steuer")
            \/ Contains(text, "steuerklasse")
    THEN "tax"
    ELSE "fallback"

\* The page's generate_bot_reply(user_message), page being the sidebar inputs.
app_generate_bot_reply(user_message, page) ==
    LET ctx == app_ctx(page)
        category == APP_Category(Lower(user_message))
    IN  CASE category = "goal" -> APP_GoalReply(ctx)
          [] category = "target" -> APP_TargetReply(ctx)
          [] category = "budget" -> APP_BudgetReply(ctx)
          [] category = "overspending" -> APP_OverspendReply(ctx)
          [] category = "tax" -> APP_TaxReply(ctx)
          [] OTHER -> APP_Help

-----------------------------------------------------------------------------
(* Inputs *)

\* The income grid has MaxIncomeSteps + 1 points, 2000 apart.
MaxIncomeSteps == 13

\* Goal horizons -1 .. MaxGoalMonths, and a year.
MaxGoalMonths == 3

\* Monthly gross incomes: the grid, the three incomes whose annual figure is a
\* band boundary (967, 16690/3, 277825/12), their neighbours, the widget's
\* default 3000 and scenario values.
GrossIncomes ==
    {R(2000 * k) : k \in 0..MaxIncomeSteps}
    \cup {R(967), Q(16690, 3), Q(277825, 12)}
    \cup {R(966), R(968), R(5563), R(5564), R(23100), R(23200)}
    \cup {R(500), R(3000), R(5000)}

\* compute_financials validates nothing: a negative income is accepted.
AnyIncomes == GrossIncomes \cup {R(-1000)}

\* Class identifiers a caller may pass: the six, and some unknown to the dict.
AnyTaxClasses == TaxClassSet \cup {"VII", "i", ""}

Categories == DOMAIN RECOMMENDED_PCT

Expenses(rent, food, transport, utilities, fun, other) ==
    [cat \in Categories |->
        CASE cat = "Rent / Housing" -> R(rent)
          [] cat = "Food & Groceries" -> R(food)
          [] cat = "Transport" -> R(transport)
          [] cat = "Utilities & Bills" -> R(utilities)
          [] cat = "Entertainment & Eating Out" -> R(fun)
          [] OTHER -> R(other)]

ExpenseMaps ==
    {Expenses(0, 0, 0, 0, 0, 0),
     Expenses(900, 300, 100, 150, 200, 100),
     Expenses(2000, 800, 400, 300, 300, 200),
     Expenses(300, 0, 0, 0, 0, 50)}

GoalAmounts == {R(-500), R(0), R(1000), R(6000)}

GoalMonths == (-1..MaxGoalMonths) \cup {12}

BaseTaxes == {calculate_german_income_tax(m) : m \in GrossIncomes}

\* No key pasted, or one.
ApiKeys == {"", "sk-test"}

\* What users type.
Messages ==
    {"", "hello", "Can I reach it?", "goal", "Is my savings goal realistic?",
     "How do I save for my goal?", "save", "What can I save per month?",
     "How much should I save?", "how much should I save for my goal",
     "How much should I save every month to reach my goal?",
     "how much is my budget", "how much can I save on my budget",
     "Can you summarise my budget?", "summary", "Give me an overview",
     "reduce my budget", "Where am I overspending?", "How can I improve?",
     "What should I reduce?", "what can I cut", "reduce tax",
     "how much can I save if I reduce my tax", "tax", "Steuer", "Which class?",
     "What does my Steuerklasse mean?", "my tax class summary",
     "GOAL SAVE MONTH", "My goal: save every month",
     "Budget for my goal to save each month",
     "SUMMARY: how much to save monthly for the goal, reduce tax class"}

\* The turns a caller may hold: none, an exchange, more than five turns.
Turn(role, content) == [role |-> role, content |-> content]

Histories ==
    {<<>>,
     <<Turn("assistant", "Hi!"), Turn("user", "hello")>>,
     <<Turn("assistant", "Hi!"), Turn("user", "one"), Turn("assistant", "two"),
       Turn("user", "three"), Turn("assistant", "four"), Turn("user", "five"),
       Turn("assistant", "six")>>}

\* The texts the external responder may answer with.
Contents == {"Save 500 per month.", ""}

\* str(e) of the exceptions the responder call may raise.
Failures == {"Connection error.", "Error code: 401", "list index out of range"}

\* One set of sidebar inputs.
Inputs(gross_income, selected_tax_class, expenses, goal_amount, goal_months) ==
    [gross_income |-> gross_income, selected_tax_class |-> selected_tax_class,
     expenses |-> expenses, goal_amount |-> goal_amount,
     goal_months |-> goal_months]

\* Inputs of the chat runs beside the grid: savings of 300 against a goal of
\* 6000 in 12 months; categories exactly at and just above guideline + 0.05
\* of a net income of 500; a goal over 3 months; and what only a direct
\* caller of chat_assistant can pass: a category of its own, a negative
\* income, a class unknown to the table with a goal over 0 months.
ChatScenarios ==
    {Inputs(R(500), "I", Expenses(200, 0, 0, 0, 0, 0), R(6000), 12),
     Inputs(R(500), "I", Expenses(175, 100, 75, 76, 50, 51), R(0), 12),
     Inputs(R(3000), "I", Expenses(900, 300, 100, 150, 200, 100), R(1000), 3),
     Inputs(R(500), "I",
            Expenses(100, 50, 75, 30, 20, 10) @@ ("Pets" :> R(80)), R(0), 12),
     Inputs(R(-1000), "I", Expenses(300, 0, 0, 0, 0, 50), R(1000), 12),
     Inputs(R(3000), "VII", Expenses(0, 0, 0, 0, 0, 0), R(1000), 0)}

\* Sidebar inputs of the chat runs.
ChatInputs ==
    [gross_income : {R(0), R(3000), R(5000)},
     selected_tax_class : {"I", "V"},
     expenses : {Expenses(0, 0, 0, 0, 0, 0), Expenses(2000, 800, 400, 300, 300, 200)},
     goal_amount : {R(0), R(6000)},
     goal_months : {12}]
    \cup ChatScenarios

-----------------------------------------------------------------------------
(* The functions as operations: the initial state holds the arguments, each  *)
(* action is one call.                                                       *)

TaxIdle == tax_in = <<>> /\ tax_prev = None /\ tax_cur = None

ModifierIdle == mod_in = None /\ mod_call = None

FinancialsIdle == fin_in = None /\ fin = None

ChatIdle ==
    /\ OPENAI_API_KEY = ""
    /\ chat_in = None
    /\ chat_pc = "idle"
    /\ requests = <<>>
    /\ responder = None
    /\ rule_calls = 0
    /\ chat_reply = None
    /\ app_reply = None

SessionIdle ==
    sidebar = None /\ messages = <<>> /\ submitted = <<>> /\ tax_tab = None

InitTax ==
    /\ tax_in \in GrossIncomes \X GrossIncomes
    /\ tax_prev = None
    /\ tax_cur = None
    /\ ModifierIdle /\ FinancialsIdle /\ ChatIdle /\ SessionIdle

InitModifier ==
    /\ mod_in \in [base_tax : BaseTaxes, tax_class : AnyTaxClasses]
    /\ mod_call = None
    /\ TaxIdle /\ FinancialsIdle /\ ChatIdle /\ SessionIdle

InitFinancials ==
    /\ fin_in \in [gross_income : AnyIncomes, selected_tax_class : AnyTaxClasses,
                   expenses : ExpenseMaps, goal_amount : GoalAmounts,
                   goal_months : GoalMonths]
    /\ fin = None
    /\ TaxIdle /\ ModifierIdle /\ ChatIdle /\ SessionIdle

CallTax ==
    /\ tax_in # <<>>
    /\ tax_in' = Tail(tax_in)
    /\ tax_prev' = tax_cur
    /\ tax_cur' = [monthly_income |-> Head(tax_in),
                   result |-> calculate_german_income_tax(Head(tax_in))]
    /\ UNCHANGED <<mod_in, mod_call, fin_in, fin>>
    /\ UNCHANGED chat_vars
    /\ UNCHANGED session_vars

CallModifier ==
    /\ mod_in # None
    /\ mod_call = None
    /\ mod_call' = [base_tax |-> mod_in.base_tax, tax_class |-> mod_in.tax_class,
                    result |-> apply_tax_class_modifier(mod_in.base_tax,
                                                        mod_in.tax_class)]
    /\ UNCHANGED <<tax_in, tax_prev, tax_cur, mod_in, fin_in, fin>>
    /\ UNCHANGED chat_vars
    /\ UNCHANGED session_vars

CallComputeFinancials ==
    /\ fin_in # None
    /\ fin = None
    /\ fin' = compute_financials(fin_in.gross_income, fin_in.selected_tax_class,
                                 fin_in.expenses, fin_in.goal_amount,
                                 fin_in.goal_months)
    /\ UNCHANGED <<tax_in, tax_prev, tax_cur, mod_in, mod_call, fin_in>>
    /\ UNCHANGED chat_vars
    /\ UNCHANGED session_vars

SpecTax == InitTax /\ [][CallTax]_vars

SpecModifier == InitModifier /\ [][CallModifier]_vars

SpecFinancials == InitFinancials /\ [][CallComputeFinancials]_vars

-----------------------------------------------------------------------------
(* The chat: a caller computes the snapshot, then asks for a reply.  The     *)
(* page's own generate_bot_reply answers the same message from the same      *)
(* sidebar inputs.                                                           *)

\* What the sidebar widgets can hold: min_value 0.0 on the amounts, 1 on the
\* months, the six classes, the six categories.
PagePossible(inputs) ==
    /\ RLe(Zero, inputs.gross_income)
    /\ inputs.selected_tax_class \in TaxClassSet
    /\ DOMAIN inputs.expenses = Categories
    /\ \A cat \in Categories : RLe(Zero, inputs.expenses[cat])
    /\ RLe(Zero, inputs.goal_amount)
    /\ inputs.goal_months >= 1

\* The sidebar inputs with the page's currency.
PageOf(inputs) ==
    [gross_income |-> inputs.gross_income,
     selected_tax_class |-> inputs.selected_tax_class,
     expenses |-> inputs.expenses,
     goal_amount |-> inputs.goal_amount,
     goal_months |-> inputs.goal_months,
     currency |-> Euro]

InitChat ==
    /\ OPENAI_API_KEY \in ApiKeys
    /\ chat_in \in [user_message : Messages, history : Histories]
    /\ chat_pc = "ready"
    /\ requests = <<>>
    /\ responder = None
    /\ rule_calls = 0
    /\ chat_reply = None
    /\ app_reply = None
    /\ fin_in \in ChatInputs
    /\ fin = None
    /\ TaxIdle /\ ModifierIdle /\ SessionIdle

\* chat_assistant.generate_bot_reply(user_message, ctx, history), up to its
\* return or to the call of the external responder.
GenerateBotReply ==
    /\ chat_pc = "ready"
    /\ Returned(fin)
    /\ IF OPENAI_ENABLED /\ client # None
       THEN /\ requests' = Append(requests,
                                  openai_messages(chat_in.user_message, fin,
                                                  chat_in.history))
            /\ chat_pc' = "awaiting"
            /\ UNCHANGED <<rule_calls, chat_reply>>
       ELSE /\ rule_calls' = rule_calls + 1
            /\ chat_reply' = rule_based_outcome(chat_in.user_message, fin)
            /\ chat_pc' = "done"
            /\ UNCHANGED requests
    /\ UNCHANGED <<tax_in, tax_prev, tax_cur, mod_in, mod_call, fin_in, fin,
                   OPENAI_API_KEY, chat_in, responder, app_reply>>
    /\ UNCHANGED session_vars

\* client.chat.completions.create returns: response.choices[0].message.content
ResponderReturns(content) ==
    /\ chat_pc = "awaiting"
    /\ responder' = Return(content)
    /\ chat_reply' = Return(content)
    /\ chat_pc' = "done"
    /\ UNCHANGED <<tax_in, tax_prev, tax_cur, mod_in, mod_call, fin_in, fin,
                   OPENAI_API_KEY, chat_in, requests, rule_calls, app_reply>>
    /\ UNCHANGED session_vars

\* client.chat.completions.create, or reading its response, raises e.
ResponderRaises(e) ==
    /\ chat_pc = "awaiting"
    /\ responder' = Raise(e)
    /\ chat_reply' = openai_except(e)
    /\ chat_pc' = "done"
    /\ UNCHANGED <<tax_in, tax_prev, tax_cur, mod_in, mod_call, fin_in, fin,
                   OPENAI_API_KEY, chat_in, requests, rule_calls, app_reply>>
    /\ UNCHANGED session_vars

\* The page's generate_bot_reply(user_message).
AppGenerateBotReply ==
    /\ chat_in # None
    /\ fin_in # None
    /\ PagePossible(fin_in)
    /\ app_reply = None
    /\ app_reply' = Return(app_generate_bot_reply(chat_in.user_message, PageOf(fin_in)))
    /\ UNCHANGED <<tax_in, tax_prev, tax_cur, mod_in, mod_call, fin_in, fin,
                   OPENAI_API_KEY, chat_in, chat_pc, requests, responder,
                   rule_calls, chat_reply>>
    /\ UNCHANGED session_vars

NextChat ==
    \/ CallComputeFinancials
    \/ GenerateBotReply
    \/ \E content \in Contents : ResponderReturns(content)
    \/ \E e \in Failures : ResponderRaises(e)
    \/ AppGenerateBotReply

SpecChat == InitChat /\ [][NextChat]_vars

-----------------------------------------------------------------------------
(* The chat tab of the page in one browser session: Streamlit runs the       *)
(* script again on every interaction, st.session_state lives on between the  *)
(* runs.                                                                     *)

\* The chat inputs of one session that are followed.
MaxInputs == 2

\* The sidebar values of the session.
SessionPages ==
    {Inputs(R(3000), "I", Expenses(0, 0, 0, 0, 0, 0), R(0), 12),
     Inputs(R(3000), "V", Expenses(2000, 800, 400, 300, 300, 200), R(6000), 12),
     Inputs(R(0), "I", Expenses(2000, 800, 400, 300, 300, 200), R(6000), 12),
     Inputs(R(500), "I", Expenses(200, 0, 0, 0, 0, 0), R(6000), 12)}

\* What st.chat_input may hand to the script: a text, or nothing ("").
SessionMessages ==
    {"", "Is my savings goal realistic?", "Can you summarise my budget?", "hello"}

InitSession ==
    /\ sidebar \in SessionPages
    /\ messages = <<>>
    /\ submitted = <<>>
    /\ tax_tab = None
    /\ TaxIdle /\ ModifierIdle /\ FinancialsIdle /\ ChatIdle

\* The first run of the script in the session: "messages" is not in
\* st.session_state, and no chat input has been made.
FirstRun ==
    /\ messages = <<>>
    /\ messages' = <<Turn("assistant", APP_Greeting)>>
    /\ tax_tab' = app_tax_tab(PageOf(sidebar))
    /\ UNCHANGED <<sidebar, submitted>>
    /\ UNCHANGED <<tax_in, tax_prev, tax_cur, mod_in, mod_call, fin_in, fin>>
    /\ UNCHANGED chat_vars

\* The user changes a sidebar widget: the script runs again with the new
\* values and without a chat input.
SidebarChange(inputs) ==
    /\ messages # <<>>
    /\ inputs # sidebar
    /\ sidebar' = inputs
    /\ tax_tab' = app_tax_tab(PageOf(inputs))
    /\ UNCHANGED <<messages, submitted>>
    /\ UNCHANGED <<tax_in, tax_prev, tax_cur, mod_in, mod_call, fin_in, fin>>
    /\ UNCHANGED chat_vars

\* The user sends user_input: the script runs again, `if user_input:`.
ChatInput(user_input) ==
    /\ messages # <<>>
    /\ Len(submitted) < MaxInputs
    /\ user_input # ""
    /\ messages' = AppendExchange(messages, user_input,
                                  app_generate_bot_reply(user_input, PageOf(sidebar)))
    /\ submitted' = Append(submitted, [user_input |-> user_input, sidebar |-> sidebar])
    /\ tax_tab' = app_tax_tab(PageOf(sidebar))
    /\ UNCHANGED sidebar
    /\ UNCHANGED <<tax_in, tax_prev, tax_cur, mod_in, mod_call, fin_in, fin>>
    /\ UNCHANGED chat_vars

NextSession ==
    \/ FirstRun
    \/ \E inputs \in SessionPages : SidebarChange(inputs)
    \/ \E user_input \in SessionMessages : ChatInput(user_input)

SpecSession == InitSession /\ [][NextSession]_vars

-----------------------------------------------------------------------------
(* The tax tab: the first run of the script for each income and class, and   *)
(* compute_financials for the same inputs.                                   *)

\* The sidebar values of the tax tab runs: every income with every class.
TaxTabPages ==
    {Inputs(gross_income, selected_tax_class,
            Expenses(900, 300, 100, 150, 200, 100), R(0), 12) :
        gross_income \in GrossIncomes, selected_tax_class \in TaxClassSet}

InitTaxTab ==
    /\ sidebar \in TaxTabPages
    /\ fin_in = sidebar
    /\ fin = None
    /\ messages = <<>>
    /\ submitted = <<>>
    /\ tax_tab = None
    /\ TaxIdle /\ ModifierIdle /\ ChatIdle

NextTaxTab ==
    \/ FirstRun
    \/ CallComputeFinancials

SpecTaxTab == InitTaxTab /\ [][NextTaxTab]_vars

-----------------------------------------------------------------------------
(* Properties of the financial engine *)

AnnualOf(call) == annual_income_of(call.monthly_income)

\* C1: calculate_german_income_tax is continuous at the three band
\* boundaries.  At an annual income of exactly 11,604 the tax is 0 and the
\* band-2 formula gives 0; at exactly 66,760 the tax is what the band-2 formula
\* gives and the band-3 formula gives the same; at exactly 277,825 the tax is
\* what the band-3 formula gives and the band-4 formula gives the same.
ContinuousAtBoundaries ==
    Called(tax_cur) =>
        LET a == AnnualOf(tax_cur)
            t == RMul(tax_cur.result, R(12))
        IN  /\ a = R(11604) => t = Zero /\ Band2(a) = Zero
            /\ a = R(66760) => t = Band2(a) /\ Band2(a) = Band3(a)
            /\ a = R(277825) => t = Band3(a) /\ Band3(a) = Band4(a)

\* The tax has been computed at the second and then at the third boundary.
ContinuousAtBoundaries_Witness ==
    /\ Called(tax_prev) /\ Called(tax_cur)
    /\ AnnualOf(tax_prev) = R(66760)
    /\ AnnualOf(tax_cur) = R(277825)
    /\ RLt(tax_prev.result, tax_cur.result)

\* C2: for monthly incomes 0 <= a <= b the tax of a is at most the tax of b,
\* the tax of 0 is 0, and the tax of a non-negative income is never negative.
TaxMonotone ==
    /\ Called(tax_cur) /\ tax_cur.monthly_income = Zero => tax_cur.result = Zero
    /\ Called(tax_cur) /\ RLe(Zero, tax_cur.monthly_income)
           => RLe(Zero, tax_cur.result)
    /\ Called(tax_prev) /\ Called(tax_cur)
           /\ RLe(Zero, tax_prev.monthly_income)
           /\ RLe(tax_prev.monthly_income, tax_cur.monthly_income)
           => RLe(tax_prev.result, tax_cur.result)
    /\ Called(tax_prev) /\ Called(tax_cur)
           /\ RLe(Zero, tax_cur.monthly_income)
           /\ RLe(tax_cur.monthly_income, tax_prev.monthly_income)
           => RLe(tax_cur.result, tax_prev.result)

\* Two incomes on the two sides of the top boundary, the tax rising with them.
TaxMonotone_Witness ==
    /\ Called(tax_prev) /\ Called(tax_cur)
    /\ RLt(AnnualOf(tax_prev), R(277825))
    /\ RLt(R(277825), AnnualOf(tax_cur))
    /\ RLt(Zero, tax_prev.result)
    /\ RLt(tax_prev.result, tax_cur.result)

\* The factor table of the tax classes as documented.
DocumentedFactor(cls) ==
    CASE cls = "I" -> Q(1, 1)
      [] cls = "II" -> Q(9, 10)
      [] cls = "III" -> Q(4, 5)
      [] cls = "IV" -> Q(1, 1)
      [] cls = "V" -> Q(6, 5)
      [] cls = "VI" -> Q(13, 10)
      [] OTHER -> Q(1, 1)

\* C3: apply_tax_class_modifier(t, cls) returns t times the factor of cls
\* (I 1.00, II 0.90, III 0.80, IV 1.00, V 1.20, VI 1.30), returns t unchanged
\* for a class outside the six, and raises nothing.
ModifierIsFactor ==
    Called(mod_call) =>
        /\ ~Raised(mod_call.result)
        /\ mod_call.result = RMul(mod_call.base_tax, DocumentedFactor(mod_call.tax_class))
        /\ mod_call.tax_class \notin TaxClassSet => mod_call.result = mod_call.base_tax

\* A positive tax passed with a class the table does not hold comes back as is.
ModifierIsFactor_Witness ==
    /\ Called(mod_call)
    /\ mod_call.tax_class = "VII"
    /\ RPos(mod_call.base_tax)
    /\ mod_call.result = mod_call.base_tax

\* C4: the tax_per_class mapping of every snapshot has exactly the keys I..VI,
\* each value the class factor times the snapshot's base tax, whatever class
\* is selected; for a selected class among the six the entry of that class is
\* estimated_tax_selected.
TaxPerClassSixKeys ==
    Returned(fin) =>
        /\ DOMAIN fin.tax_per_class = {"I", "II", "III", "IV", "V", "VI"}
        /\ \A cls \in DOMAIN fin.tax_per_class :
               fin.tax_per_class[cls] = RMul(fin.base_tax, DocumentedFactor(cls))
        /\ fin.base_tax = calculate_german_income_tax(fin_in.gross_income)
        /\ fin.selected_tax_class \in TaxClassSet
               => fin.tax_per_class[fin.selected_tax_class] = fin.estimated_tax_selected

\* A snapshot for an unknown selected class and a positive base tax.
TaxPerClassSixKeys_Witness ==
    /\ Returned(fin)
    /\ fin.selected_tax_class \notin TaxClassSet
    /\ RPos(fin.base_tax)
    /\ Cardinality(DOMAIN fin.tax_per_class) = 6

\* C5: in every snapshot total_expenses is the sum of the expense amounts,
\* savings = net_income - total_expenses, savings_rate is 0 when net_income <= 0
\* and savings / net_income * 100 when net_income > 0.
SavingsAndRate ==
    Returned(fin) =>
        LET e == fin_in.expenses
            total == RAdd(RAdd(RAdd(e["Rent / Housing"], e["Food & Groceries"]),
                               RAdd(e["Transport"], e["Utilities & Bills"])),
                          RAdd(e["Entertainment & Eating Out"], e["Shopping & Other"]))
        IN  /\ fin.total_expenses = total
            /\ RAdd(fin.savings, total) = fin.net_income
            /\ RLe(fin.net_income, Zero) => fin.savings_rate = Zero
            /\ RPos(fin.net_income)
                   => RMul(fin.savings_rate, fin.net_income) = RMul(fin.savings, R(100))

\* A snapshot with a negative net income and expenses: the rate is 0.
SavingsAndRate_Witness ==
    /\ Returned(fin)
    /\ RLt(fin.net_income, Zero)
    /\ RPos(fin.total_expenses)
    /\ RLt(fin.savings, fin.net_income)
    /\ fin.savings_rate = Zero

\* C6: compute_financials never divides by zero for required_monthly_savings:
\* the result is 0 when goal_amount <= 0 whatever goal_months is, 0 when
\* goal_months <= 0, and goal_amount / goal_months when goal_amount > 0 and
\* goal_months >= 1; the page's own required_monthly_savings is the same.
RequiredSavingsGuarded ==
    Called(fin) =>
        /\ ~Raised(fin)
        /\ RLe(fin.goal_amount, Zero) => fin.required_monthly_savings = Zero
        /\ fin.goal_months <= 0 => fin.required_monthly_savings = Zero
        /\ RPos(fin.goal_amount) /\ fin.goal_months >= 1
               => RMul(fin.required_monthly_savings, R(fin.goal_months)) = fin.goal_amount
        /\ app_required_monthly_savings(fin_in.goal_amount, fin_in.goal_months)
               = fin.required_monthly_savings

\* A goal is set with a horizon of zero months: the snapshot holds 0.
RequiredSavingsGuarded_Witness ==
    /\ Returned(fin)
    /\ RPos(fin.goal_amount)
    /\ fin.goal_months = 0
    /\ fin.required_monthly_savings = Zero

-----------------------------------------------------------------------------
(* Properties of the chat dispatchers *)

\* chat_assistant.generate_bot_reply has answered by the rules.
RuleReplied == chat_pc = "done" /\ rule_calls = 1 /\ Returned(chat_reply)

\* The page's generate_bot_reply has answered.
AppReplied == Returned(app_reply)

TheMessage == Lower(chat_in.user_message)

NoKeySelectsRules ==
    /\ (client # None) <=> OPENAI_ENABLED
    /\ OPENAI_ENABLED <=> (OPENAI_API_KEY # "")
    /\ requests # <<>> => OPENAI_API_KEY # "" /\ client # None
    /\ chat_pc = "awaiting" => OPENAI_API_KEY # ""
    /\ OPENAI_API_KEY = "" /\ chat_pc = "done"
           => /\ chat_reply
                     = Return(generate_rule_based_reply(chat_in.user_message, fin))
              /\ requests = <<>>
              /\ responder = None
              /\ rule_calls = 1

\* No key, a history of more than five turns, and the reply of the rules.
NoKeySelectsRules_Witness ==
    /\ OPENAI_API_KEY = ""
    /\ RuleReplied
    /\ Len(chat_in.history) > 5
    /\ Contains(TheMessage, "budget")
    /\ StartsWith(chat_reply.value, "Gross income: ")
    /\ requests = <<>>

\* The branch a reply of generate_rule_based_reply comes from, read off its text.
CA_ReplyKind(reply) ==
    IF reply = CA_GoalPrompt \/ StartsWith(reply, "To reach **") THEN "goal"
    ELSE IF StartsWith(reply, "Gross income: ") THEN "budget"
    ELSE IF reply = CA_NothingOverspent \/ StartsWith(reply, "Areas to improve:")
    THEN "overspending"
    ELSE IF StartsWith(reply, "Here's a rough tax breakdown:") THEN "tax"
    ELSE IF reply = CA_Help THEN "fallback"
    ELSE "unknown"

\* The branch a reply of the page's generate_bot_reply comes from.
APP_ReplyKind(reply) ==
    IF reply = APP_GoalPrompt \/ StartsWith(reply, "Your goal is **") THEN "goal"
    ELSE IF reply = APP_TargetPrompt \/ StartsWith(reply, "To reach **") THEN "target"
    ELSE IF StartsWith(reply, "- Gross income: **") THEN "budget"
    ELSE IF reply = APP_NeedNetIncome \/ reply = APP_NoneHigh
            \/ StartsWith(reply, "Here are the main areas where you may be overspending:")
    THEN "overspending"
    ELSE IF StartsWith(reply, "Here's a **very simplified** view") THEN "tax"
    ELSE IF reply = APP_Help THEN "fallback"
    ELSE "unknown"

\* The first category of order that is among matching, else the fallback.
FirstOf(order, matching) ==
    IF \E i \in 1..Len(order) : order[i] \in matching
    THEN order[CHOOSE i \in 1..Len(order) :
                   /\ order[i] \in matching
                   /\ \A j \in 1..(i - 1) : order[j] \notin matching]
    ELSE "fallback"

CategoryOrder == <<"goal", "target", "budget", "overspending", "tax">>

Has(text, kws) == \E kw \in kws : Contains(text, kw)

\* The categories a text matches by the documented keywords.
DocumentedMatches(text) ==
    {c \in {"goal", "target", "budget", "overspending", "tax"} :
        CASE c = "goal" -> Contains(text, "reach")
                           \/ (Contains(text, "goal") /\ Contains(text, "save"))
          [] c = "target" -> Contains(text, "how much") /\ Contains(text, "save")
          [] c = "budget" -> Has(text, {"budget", "summary"})
          [] c = "overspending" -> Has(text, {"overspend", "reduce", "improve"})
          [] c = "tax" -> Has(text, {"tax", "steuer", "class"})}

CA_Matches(text) ==
    {c \in {"goal", "budget", "overspending", "tax"} :
        CASE c = "goal" -> Contains(text, "goal")
                           \/ (Contains(text, "save") /\ Contains(text, "month"))
          [] c = "budget" -> Has(text, {"summary", "budget", "overview"})
          [] c = "overspending" -> Has(text, {"reduce", "overspend", "improve"})
          [] c = "tax" -> Has(text, {"tax", "steuer", "class"})}

\* The categories a text matches by the keywords of app.py.
APP_Matches(text) ==
    {c \in {"goal", "target", "budget", "overspending", "tax"} :
        CASE c = "goal" -> Contains(text, "reach")
                           \/ (Contains(text, "goal") /\ Contains(text, "save"))
          [] c = "target" -> Contains(text, "how much") /\ Contains(text, "save")
          [] c = "budget" -> Has(text, {"budget", "overview", "summary"})
          [] c = "overspending" -> Has(text, {"overspend", "improve", "reduce", "cut"})
          [] c = "tax" -> Has(text, {"tax", "steuer"})}

GoalSaveMonthIsGoal ==
    Contains(TheMessage, "goal") /\ Contains(TheMessage, "save")
        /\ Contains(TheMessage, "month")
    => /\ RuleReplied
              => /\ CA_ReplyKind(chat_reply.value) = "goal"
                 /\ chat_reply.value = CA_GoalReply(fin)
       /\ AppReplied
              => /\ APP_ReplyKind(app_reply.value) = "goal"
                 /\ app_reply.value = APP_GoalReply(app_ctx(PageOf(fin_in)))

\* A message in capitals with goal, save, month and the keywords of three
\* other categories, answered by both with the goal reply.
GoalSaveMonthIsGoal_Witness ==
    /\ RuleReplied /\ AppReplied
    /\ chat_in.user_message # TheMessage
    /\ \A kw \in {"goal", "save", "month", "summary", "how much", "reduce",
                  "tax", "class"} : Contains(TheMessage, kw)
    /\ CA_ReplyKind(chat_reply.value) = "goal"
    /\ APP_ReplyKind(app_reply.value) = "goal"

-----------------------------------------------------------------------------
(* Properties of the replies *)

\* The snapshot the page's generate_bot_reply answers from.
PageCtx == app_ctx(PageOf(fin_in))

\* The goal branch a reply text comes from, read off its wording.
GoalBranchOf(reply) ==
    IF reply \in {CA_GoalPrompt, APP_GoalPrompt} THEN "prompt"
    ELSE IF Contains(reply, "fix your monthly cashflow first") THEN "cashflow"
    ELSE IF Contains(reply, CA_Enough) \/ Contains(reply, "mathematically achievable")
    THEN "achievable"
    ELSE IF Contains(reply, "you're short by") THEN "shortfall"
    ELSE "unknown"

\* The four documented branches, in the documented order.
DocumentedGoalBranch(goal_amount, savings, required) ==
    IF RLe(goal_amount, Zero) THEN "prompt"
    ELSE IF RLe(savings, Zero) THEN "cashflow"
    ELSE IF RLe(required, savings) THEN "achievable"
    ELSE "shortfall"

\* A reply states an amount: the currency and the amount in whole units.
States(reply, currency, amount) == Contains(reply, currency \o Fmt0(amount))

\* A goal reply of the shortfall branch states the required monthly savings
\* and the shortfall required - savings.
ShortfallStated(reply, currency, savings, required) ==
    GoalBranchOf(reply) = "shortfall"
    => /\ States(reply, currency, required)
       /\ States(reply, currency, RSub(required, savings))
       /\ savings = R(300) /\ required = R(500)
              => /\ Contains(reply, currency \o "500 per month")
                 /\ \/ Contains(reply, "short by **" \o currency \o "200**")
                    \/ Contains(reply, "short by roughly **" \o currency
                                       \o "200 per month**")

\* generate_rule_based_reply has answered a goal question.
CA_GoalAnswered == RuleReplied /\ CA_ReplyKind(chat_reply.value) = "goal"

\* The page's generate_bot_reply has answered a goal question.
APP_GoalAnswered == AppReplied /\ APP_ReplyKind(app_reply.value) = "goal"

\* C11 as stated: a goal reply comes from exactly one of four branches, tested
\* in this order: goal amount <= 0 (prompt to set a goal), savings <= 0
\* (cashflow must be fixed first), savings >= required (achievable), else the
\* required monthly savings and the shortfall required - savings.
GoalBranchesAsDocumented ==
    /\ CA_GoalAnswered
           => /\ GoalBranchOf(chat_reply.value)
                     = DocumentedGoalBranch(fin.goal_amount, fin.savings,
                                            fin.required_monthly_savings)
              /\ ShortfallStated(chat_reply.value, ctx_currency(fin), fin.savings,
                                 fin.required_monthly_savings)
    /\ APP_GoalAnswered
           => /\ GoalBranchOf(app_reply.value)
                     = DocumentedGoalBranch(PageCtx.goal_amount, PageCtx.savings,
                                            PageCtx.required_savings)
              /\ ShortfallStated(app_reply.value, PageCtx.currency, PageCtx.savings,
                                 PageCtx.required_savings)

\* What the code does: the page's goal reply comes from exactly one of the
\* four documented branches in the documented order; the goal reply of
\* generate_rule_based_reply has three: goal amount <= 0 (prompt), savings
\* below required (required monthly savings and shortfall, also when savings
\* are zero or negative), else achievable.  The shortfall branch of both
\* states required and required - savings: 500 and 200 for savings of 300
\* against 6000 in 12 months.
GoalBranchesAsCoded ==
    /\ CA_GoalAnswered
           => /\ GoalBranchOf(chat_reply.value)
                     = (IF RLe(fin.goal_amount, Zero) THEN "prompt"
                        ELSE IF RLt(fin.savings, fin.required_monthly_savings)
                        THEN "shortfall"
                        ELSE "achievable")
              /\ ShortfallStated(chat_reply.value, ctx_currency(fin), fin.savings,
                                 fin.required_monthly_savings)
    /\ APP_GoalAnswered
           => /\ GoalBranchOf(app_reply.value)
                     = DocumentedGoalBranch(PageCtx.goal_amount, PageCtx.savings,
                                            PageCtx.required_savings)
              /\ ShortfallStated(app_reply.value, PageCtx.currency, PageCtx.savings,
                                 PageCtx.required_savings)

\* Both dispatchers have answered a goal question for savings of 300 against
\* a goal of 6000 in 12 months, from the shortfall branch.
GoalShortfallStated ==
    /\ CA_GoalAnswered /\ APP_GoalAnswered
    /\ fin.goal_amount = R(6000) /\ fin.goal_months = 12
    /\ fin.savings = R(300) /\ PageCtx.savings = R(300)
    /\ GoalBranchOf(chat_reply.value) = "shortfall"
    /\ GoalBranchOf(app_reply.value) = "shortfall"

\* Both dispatchers have answered a goal question for a goal of 6000 and
\* savings of -4000: the page says that the cashflow must be fixed first,
\* generate_rule_based_reply states a shortfall of 4500.
GoalBranchesAsDocumented_Witness ==
    /\ CA_GoalAnswered /\ APP_GoalAnswered
    /\ fin.goal_amount = R(6000) /\ fin.savings = R(-4000)
    /\ GoalBranchOf(app_reply.value) = "cashflow"
    /\ GoalBranchOf(chat_reply.value) = "shortfall"
    /\ Contains(chat_reply.value, "short by **" \o Euro \o "4,500**")

\* The message asks how much to save.
AsksHowMuchToSave == Contains(TheMessage, "how much") /\ Contains(TheMessage, "save")

\* A reply is the savings-target reply for a snapshot: the prompt to set a
\* goal when none is set, else the required monthly savings, the current
\* savings and the savings rate.
IsTargetReply(reply, currency, goal_amount, required, savings, savings_rate) ==
    IF RLe(goal_amount, Zero)
    THEN reply \in {APP_TargetPrompt, APP_GoalPrompt, CA_GoalPrompt}
    ELSE /\ Contains(reply, currency \o Fmt0(required) \o " per month")
         /\ Contains(reply, currency \o Fmt0(savings))
         /\ Contains(reply, Fix1(savings_rate) \o "%")

\* C12 as stated: a message with 'how much' and 'save' that does not match the
\* goal predicate is answered by generate_rule_based_reply with the
\* savings-target reply: required monthly savings, current savings and
\* savings rate, or a prompt to set a goal when the goal amount is <= 0.
TargetReplyByRules ==
    RuleReplied /\ AsksHowMuchToSave /\ "goal" \notin CA_Matches(TheMessage)
    => IsTargetReply(chat_reply.value, ctx_currency(fin), fin.goal_amount,
                     fin.required_monthly_savings, fin.savings, fin.savings_rate)

\* What the code does: a message with 'how much' and 'save' that does not
\* match the page's goal predicate is answered by the page's generate_bot_reply with the
\* savings-target reply (required monthly savings, current savings, savings
\* rate; a prompt when the goal amount is <= 0); generate_rule_based_reply
\* has no such category and answers such a message, when it does not match
\* its own goal predicate, from the first of budget, overspending and tax
\* that matches, else with its help text.
TargetReplyByPage ==
    /\ AppReplied /\ AsksHowMuchToSave /\ "goal" \notin APP_Matches(TheMessage)
           => /\ APP_ReplyKind(app_reply.value) = "target"
              /\ IsTargetReply(app_reply.value, PageCtx.currency, PageCtx.goal_amount,
                               PageCtx.required_savings, PageCtx.savings,
                               PageCtx.savings_rate)
              /\ RLe(PageCtx.goal_amount, Zero) => app_reply.value = APP_TargetPrompt
    /\ RuleReplied /\ AsksHowMuchToSave /\ "goal" \notin CA_Matches(TheMessage)
           => /\ CA_ReplyKind(chat_reply.value)
                     \in {"budget", "overspending", "tax", "fallback"}
              /\ CA_ReplyKind(chat_reply.value)
                     = FirstOf(CategoryOrder, CA_Matches(TheMessage))

\* "How much should I save?" with a goal set: the page has answered with the
\* three figures, generate_rule_based_reply with its help text.
TargetReplyByPage_Witness ==
    /\ RuleReplied /\ AppReplied
    /\ AsksHowMuchToSave
    /\ "goal" \notin APP_Matches(TheMessage) \cup CA_Matches(TheMessage)
    /\ RPos(PageCtx.goal_amount)
    /\ APP_ReplyKind(app_reply.value) = "target"
    /\ chat_reply.value = CA_Help

\* The lines of a text.
RECURSIVE SplitLines(_)
SplitLines(s) ==
    IF \E i \in 1..Len(s) : SubSeq(s, i, i) = "\n"
    THEN LET i == CHOOSE k \in 1..Len(s) :
                      /\ SubSeq(s, k, k) = "\n"
                      /\ \A j \in 1..(k - 1) : SubSeq(s, j, j) # "\n"
         IN  <<SubSeq(s, 1, i - 1)>> \o SplitLines(SubSeq(s, i + 1, Len(s)))
    ELSE <<s>>

\* A category's share of net income in percent, 0 when net income is <= 0.
PctOfNet(amount, net_income) ==
    IF RPos(net_income) THEN RMul(RDiv(amount, net_income), R(100)) ELSE Zero

\* A line names a figure: its label and the amount in whole currency units.
LineStates(line, label, currency, amount) ==
    Contains(Lower(line), Lower(label)) /\ Contains(line, currency \o Fmt0(amount))

\* The six summary figures are among the given lines of a budget reply.
SummaryListed(lines, ctx, currency) ==
    /\ \E i \in 1..Len(lines) : LineStates(lines[i], "Gross income", currency, ctx.gross_income)
    /\ \E i \in 1..Len(lines) :
           /\ LineStates(lines[i], "tax", currency, ctx.estimated_tax_selected)
           /\ Contains(lines[i], "Class " \o ctx.selected_tax_class)
    /\ \E i \in 1..Len(lines) : LineStates(lines[i], "Net income", currency, ctx.net_income)
    /\ \E i \in 1..Len(lines) : LineStates(lines[i], "Total expenses", currency, ctx.total_expenses)
    /\ \E i \in 1..Len(lines) :
           /\ LineStates(lines[i], "Savings", currency, ctx.savings)
           /\ Contains(lines[i], "(" \o Fix1(ctx.savings_rate) \o "% of net income)")

\* The lines from position first on are one line per expense category, in
\* the order of the expenses, each with amount and percentage of net income.
CategoriesListed(lines, first, ctx, currency) ==
    LET cats == ExpenseKeys(ctx.expenses)
    IN  /\ Len(lines) = first - 1 + Len(cats)
        /\ \A i \in 1..Len(cats) :
               /\ Contains(lines[first - 1 + i], cats[i] \o ": ")
               /\ Contains(lines[first - 1 + i], currency \o Fmt0(ctx.expenses[cats[i]]))
               /\ Contains(lines[first - 1 + i],
                           "(" \o Fix1(PctOfNet(ctx.expenses[cats[i]], ctx.net_income))
                           \o "% of net income)")

\* C13 as stated: the budget-summary reply of generate_rule_based_reply lists
\* gross income, tax, net income, total expenses, savings and savings rate,
\* and then one line for every expense category with its amount and its
\* percentage of net income (0 when net income is <= 0).
BudgetListsCategoriesByRules ==
    RuleReplied /\ CA_ReplyKind(chat_reply.value) = "budget"
    => LET lines == SplitLines(chat_reply.value)
       IN  /\ SummaryListed(SubSeq(lines, 1, 5), fin, ctx_currency(fin))
           /\ CategoriesListed(lines, 6, fin, ctx_currency(fin))

\* What the code does: the budget-summary reply of the page's
\* generate_bot_reply lists gross
\* income, tax, net income, total expenses, savings and savings rate and
\* then, under a heading, one line for every expense category with its amount
\* and its percentage of net income (0 when net income is <= 0); the
\* budget-summary reply of generate_rule_based_reply is the five summary
\* lines alone and names no category.
BudgetListsCategoriesByPage ==
    /\ AppReplied /\ APP_ReplyKind(app_reply.value) = "budget"
           => LET lines == SplitLines(app_reply.value)
              IN  /\ SummaryListed(SubSeq(lines, 1, 5), PageCtx, PageCtx.currency)
                  /\ lines[6] = "" /\ lines[7] = "By category:"
                  /\ CategoriesListed(lines, 8, PageCtx, PageCtx.currency)
    /\ RuleReplied /\ CA_ReplyKind(chat_reply.value) = "budget"
           => LET lines == SplitLines(chat_reply.value)
              IN  /\ Len(lines) = 5
                  /\ SummaryListed(lines, fin, ctx_currency(fin))
                  /\ \A cat \in DOMAIN fin.expenses : ~Contains(chat_reply.value, cat)

\* Both dispatchers have answered a budget question for a positive net income
\* and a rent above 0.
BudgetListsCategoriesByPage_Witness ==
    /\ RuleReplied /\ AppReplied
    /\ CA_ReplyKind(chat_reply.value) = "budget"
    /\ APP_ReplyKind(app_reply.value) = "budget"
    /\ RPos(PageCtx.net_income) /\ RPos(PageCtx.expenses["Rent / Housing"])
    /\ Len(SplitLines(app_reply.value)) = 13
    /\ Len(SplitLines(chat_reply.value)) = 5

\* The guideline share of a category: its entry of RECOMMENDED_PCT, 0.10 for
\* a category the table does not have.
Guideline(cat) ==
    CASE cat = "Rent / Housing" -> Q(30, 100)
      [] cat = "Food & Groceries" -> Q(15, 100)
      [] OTHER -> Q(10, 100)

\* amount / net_income > guideline + 0.05, for net_income > 0
AboveThreshold(cat, amount, net_income) ==
    RLt(RMul(RAdd(Guideline(cat), Q(5, 100)), net_income), amount)

\* amount / net_income = guideline + 0.05
AtThreshold(cat, amount, net_income) ==
    RMul(RAdd(Guideline(cat), Q(5, 100)), net_income) = amount

\* An overspending reply lists a category.
Lists(reply, cat) ==
    \/ Contains(reply, "- " \o cat \o ": You spend ")
    \/ Contains(reply, "- **" \o cat \o "**: you spend about ")

\* generate_rule_based_reply has answered an overspending question.
CA_OverspendAnswered == RuleReplied /\ CA_ReplyKind(chat_reply.value) = "overspending"

\* The page's generate_bot_reply has answered an overspending question.
APP_OverspendAnswered == AppReplied /\ APP_ReplyKind(app_reply.value) = "overspending"

DefaultGuidelineUsed ==
    /\ CA_OverspendAnswered
    /\ \E cat \in DOMAIN fin.expenses \ DOMAIN RECOMMENDED_PCT :
           Lists(chat_reply.value, cat)

\* C15 as stated: when net income is <= 0, generate_rule_based_reply answers
\* an overspending question with a message that it lacks the data: it lists
\* no category and does not say that nothing is overspent, whatever the
\* expenses.
NeedsNetIncomeByRules ==
    CA_OverspendAnswered /\ RLe(fin.net_income, Zero)
    => /\ \A cat \in DOMAIN fin.expenses : ~Lists(chat_reply.value, cat)
       /\ chat_reply.value # CA_NothingOverspent
       /\ Contains(Lower(chat_reply.value), "net income")

\* What the code does instead: with net income <= 0 every share counts as 0
\* and generate_rule_based_reply says that nothing is overspent, while the
\* page's generate_bot_reply asks for a positive net income.
NothingOverspentWithoutIncome ==
    /\ CA_OverspendAnswered /\ RLe(fin.net_income, Zero)
           => chat_reply.value = CA_NothingOverspent
    /\ APP_OverspendAnswered /\ RLe(PageCtx.net_income, Zero)
           => app_reply.value = APP_NeedNetIncome

\* Both have answered an overspending question for an income of 0 and
\* expenses of 4000.
NothingOverspentWithoutIncome_Witness ==
    /\ CA_OverspendAnswered /\ APP_OverspendAnswered
    /\ fin.net_income = Zero /\ RPos(fin.total_expenses)

\* The messages given to the external responder hold, after the three system
\* messages, the last five turns of the history (all when fewer) in their
\* order with role and content as they are, and then the user's message.
HistoryWindowSent ==
    \A r \in 1..Len(requests) :
        LET sent == requests[r]
            history == chat_in.history
            n == IF Len(history) <= 5 THEN Len(history) ELSE 5
        IN  /\ Len(sent) = 3 + n + 1
            /\ \A i \in 1..3 : sent[i].role = "system"
            /\ \A i \in 1..n :
                   /\ sent[3 + i].role = history[Len(history) - n + i].role
                   /\ sent[3 + i].content = history[Len(history) - n + i].content
            /\ sent[Len(sent)]
                   = [role |-> "user", content |-> chat_in.user_message]

\* C16: generate_openai_reply gives the responder at most the last 5 turns of
\* the history (all of them when there are fewer), in their order and with
\* role and content unchanged, after the system messages and before the
\* current user message, which is always the last; the caller's history is
\* left as it was.
HistoryWindow == []HistoryWindowSent /\ [][chat_in'.history = chat_in.history]_vars

\* A request has been sent for a history of seven turns: the first two are
\* not in it.
HistoryWindow_Witness ==
    /\ Len(requests) = 1
    /\ Len(chat_in.history) = 7
    /\ Len(requests[1]) = 9
    /\ requests[1][4].content = chat_in.history[3].content

\* The position of the first sep in s, 0 when there is none.
IndexOf(s, sep) ==
    IF Contains(s, sep)
    THEN CHOOSE i \in 1..Len(s) :
             /\ SubSeq(s, i, i + Len(sep) - 1) = sep
             /\ \A j \in 1..(i - 1) : SubSeq(s, j, j + Len(sep) - 1) # sep
    ELSE 0

IsDigits(s) ==
    Len(s) > 0 /\ \A i \in 1..Len(s) : \E n \in 0..9 : SubSeq(s, i, i) = DigitChar(n)

\* int(s) for a text of digits
RECURSIVE ParseNat(_)
ParseNat(s) ==
    IF Len(s) = 0 THEN 0
    ELSE ParseNat(SubSeq(s, 1, Len(s) - 1)) * 10
         + (CHOOSE n \in 0..9 : SubSeq(s, Len(s), Len(s)) = DigitChar(n))

\* The text reads as a number: an int, or the num/den form of Repr.
IsNumeric(s) ==
    LET unsigned == IF StartsWith(s, "-") THEN SubSeq(s, 2, Len(s)) ELSE s
        slash == IndexOf(unsigned, "/")
    IN  IF slash = 0 THEN IsDigits(unsigned)
        ELSE /\ IsDigits(SubSeq(unsigned, 1, slash - 1))
             /\ IsDigits(SubSeq(unsigned, slash + 1, Len(unsigned)))

\* float(s): the number a numeric text reads back as.
ParseNumber(s) ==
    LET negative == StartsWith(s, "-")
        unsigned == IF negative THEN SubSeq(s, 2, Len(s)) ELSE s
        slash == IndexOf(unsigned, "/")
        num == IF slash = 0 THEN ParseNat(unsigned)
               ELSE ParseNat(SubSeq(unsigned, 1, slash - 1))
        den == IF slash = 0 THEN 1
               ELSE ParseNat(SubSeq(unsigned, slash + 1, Len(unsigned)))
    IN  Q(IF negative THEN 0 - num ELSE num, den)

\* The "label: value" lines of a text, as pairs.
Deserialize(text) ==
    LET lines == SplitLines(text)
    IN  {<<SubSeq(lines[i], 1, IndexOf(lines[i], ": ") - 1),
           SubSeq(lines[i], IndexOf(lines[i], ": ") + 2, Len(lines[i]))>> :
            i \in {j \in 1..Len(lines) : IndexOf(lines[j], ": ") > 0}}

\* A number is recovered from the pairs: a line labelled with the field's
\* words reads back as the number.
Recovered(pairs, words, number) ==
    \E p \in pairs :
        /\ Contains(Lower(p[1]), words)
        /\ IsNumeric(p[2])
        /\ ParseNumber(p[2]) = number

\* The numeric fields of the snapshot the reply templates use, with the words
\* that name them.
TemplateFields ==
    {<<"gross_income", "gross income">>, <<"base_tax", "base tax">>,
     <<"estimated_tax_selected", "tax">>, <<"net_income", "net income">>,
     <<"total_expenses", "expenses">>, <<"savings", "savings">>,
     <<"savings_rate", "savings rate">>, <<"goal_amount", "goal amount">>,
     <<"required_monthly_savings", "required">>}

\* The snapshot text sent with request r.
SnapshotSent(r) == requests[r][2].content

\* C17 as stated: every numeric field the reply templates use - gross
\* income, base tax, tax of the selected class, net income, total expenses,
\* the amount of each expense category, savings, savings rate, goal amount,
\* goal months, required monthly savings - is recovered unchanged from the
\* snapshot text given to the responder.
SnapshotRoundTrip ==
    \A r \in 1..Len(requests) :
        LET pairs == Deserialize(SnapshotSent(r))
        IN  /\ \A f \in TemplateFields : Recovered(pairs, f[2], fin[f[1]])
            /\ Recovered(pairs, "goal months", R(fin.goal_months))
            /\ \A cat \in DOMAIN fin.expenses :
                   Recovered(pairs, Lower(cat), fin.expenses[cat])

\* What the snapshot text keeps: the eight figures it has a line for.
SnapshotKeepsSummary ==
    \A r \in 1..Len(requests) :
        LET pairs == Deserialize(SnapshotSent(r))
        IN  /\ \A f \in TemplateFields :
                   f[1] \notin {"base_tax", "required_monthly_savings"}
                   => Recovered(pairs, f[2], fin[f[1]])
            /\ Recovered(pairs, "goal months", R(fin.goal_months))
            /\ \A p \in pairs : ~Contains(Lower(p[1]), "base")
                                /\ ~Contains(Lower(p[1]), "required")
            /\ \A cat \in DOMAIN fin.expenses, p \in pairs :
                   ~Contains(Lower(p[1]), Lower(cat))

\* A request has been sent for class V, a goal of 6000 and a rent of 2000:
\* base tax, required monthly savings and rent are in no line of it.
SnapshotRoundTrip_Witness ==
    /\ Len(requests) = 1
    /\ fin.base_tax # fin.estimated_tax_selected
    /\ fin.required_monthly_savings = R(500)
    /\ fin.expenses["Rent / Housing"] = R(2000)
    /\ ~Recovered(Deserialize(SnapshotSent(1)), "base tax", fin.base_tax)
    /\ ~Recovered(Deserialize(SnapshotSent(1)), "rent", fin.expenses["Rent / Housing"])

\* generate_rule_based_reply has been called and is back.
RuleCallOver == chat_pc = "done" /\ rule_calls = 1

DeficitStated ==
    /\ RuleCallOver /\ Returned(chat_reply)
    /\ RLt(fin.net_income, Zero)
    /\ CA_ReplyKind(chat_reply.value) = "budget"
    /\ Contains(chat_reply.value, "Savings: " \o Euro \o "-1,350")

-----------------------------------------------------------------------------
(* Net income *)

\* C20: for every gross income >= 0 and every tax class, the six and the
\* unknown ones, the tax of the selected class never exceeds the gross income:
\* net income is >= 0, and > 0 whenever gross income is > 0; a net income
\* <= 0 arises only from a gross income <= 0.
NetIncomeKeepsSign ==
    Returned(fin)
    => /\ RAdd(fin.net_income, fin.estimated_tax_selected) = fin.gross_income
       /\ RLe(Zero, fin.gross_income)
              => /\ RLe(fin.estimated_tax_selected, fin.gross_income)
                 /\ RLe(Zero, fin.net_income)
       /\ RPos(fin.gross_income) => RPos(fin.net_income)
       /\ RLe(fin.net_income, Zero) => RLe(fin.gross_income, Zero)

\* A snapshot for class VI with an income in the top band: the tax is above
\* 12000 and the net income is positive.
NetIncomeKeepsSign_Witness ==
    /\ Returned(fin)
    /\ fin.selected_tax_class = "VI"
    /\ RLt(R(24000), fin.gross_income)
    /\ RLt(R(12000), fin.estimated_tax_selected)
    /\ RPos(fin.net_income)

-----------------------------------------------------------------------------
(* Properties of the chat history *)

\* history is the beginning of longer.
IsPrefix(history, longer) ==
    Len(history) <= Len(longer) /\ SubSeq(longer, 1, Len(history)) = history

\* The history is the greeting and then, for each chat input so far, the
\* user's turn and the assistant's reply to that input under the sidebar
\* values of its run.
HistoryOfExchanges ==
    messages # <<>>
    => /\ Len(messages) = 1 + 2 * Len(submitted)
       /\ messages[1] = [role |-> "assistant", content |-> APP_Greeting]
       /\ \A i \in 1..Len(messages) :
              messages[i].role = (IF i % 2 = 1 THEN "assistant" ELSE "user")
       /\ \A k \in 1..Len(submitted) :
              /\ messages[2 * k].content = submitted[k].user_input
              /\ messages[2 * k + 1].content
                     = app_generate_bot_reply(submitted[k].user_input,
                                              PageOf(submitted[k].sidebar))

\* A run of the script leaves the history as it is or appends two turns.
HistoryGrowsByExchanges ==
    messages # <<>>
    => /\ IsPrefix(messages, messages')
       /\ Len(messages') \in {Len(messages), Len(messages) + 2}
       /\ Len(messages') = Len(messages) + 2 <=> Len(submitted') = Len(submitted) + 1

\* C19: the chat history of the page is append-only: it starts as the single
\* assistant greeting, every chat input appends exactly two turns - the user
\* turn, then the assistant reply to that input - no turn is ever removed,
\* reordered or altered, the roles alternate assistant, user, assistant, ...
\* and the length is 1 + 2 * the number of chat inputs.
HistoryAppendOnly == []HistoryOfExchanges /\ [][HistoryGrowsByExchanges]_vars

\* Two inputs have been answered, the second after a change of the sidebar:
\* five turns, the replies differing with the sidebar values.
HistoryAppendOnly_Witness ==
    /\ messages # <<>>
    /\ Len(submitted) = 2 /\ Len(messages) = 5
    /\ submitted[1].user_input = submitted[2].user_input
    /\ submitted[1].sidebar # submitted[2].sidebar
    /\ messages[3].content # messages[5].content

-----------------------------------------------------------------------------
(* The page's copies of the calculations *)

\* C21: the calculations app.py repeats agree with finance_logic.py for
\* every input: its calculate_german_income_tax and apply_tax_class_modifier
\* return what the functions of the same name in finance_logic.py return, and
\* its base_tax, estimated_tax_selected, net_income, total_expenses, savings,
\* savings_rate and required_monthly_savings are the fields of the same name
\* of compute_financials for the same inputs.
PageAgreesWithEngine ==
    Returned(fin)
    => LET ctx == app_ctx(PageOf(fin_in))
       IN  /\ app_calculate_german_income_tax(fin_in.gross_income)
                  = calculate_german_income_tax(fin_in.gross_income)
           /\ \A tax_class \in AnyTaxClasses :
                  app_apply_tax_class_modifier(fin.base_tax, tax_class)
                      = apply_tax_class_modifier(fin.base_tax, tax_class)
           /\ ctx.base_tax = fin.base_tax
           /\ ctx.estimated_tax_selected = fin.estimated_tax_selected
           /\ ctx.net_income = fin.net_income
           /\ ctx.total_expenses = fin.total_expenses
           /\ ctx.savings = fin.savings
           /\ ctx.savings_rate = fin.savings_rate
           /\ ctx.required_savings = fin.required_monthly_savings

\* A snapshot for class V with an income in the third band, expenses above
\* the net income and a goal over three months: every figure is in play.
PageAgreesWithEngine_Witness ==
    /\ Returned(fin)
    /\ fin.selected_tax_class = "V"
    /\ RLt(R(6000), fin.gross_income)
    /\ RPos(fin.total_expenses)
    /\ fin.savings_rate # Zero
    /\ RPos(fin.required_monthly_savings) /\ fin.goal_months = 3
    /\ app_ctx(PageOf(fin_in)).savings = fin.savings

-----------------------------------------------------------------------------
(* The comparison of the classes *)

\* III <= II <= I = IV <= V <= VI in a mapping from the classes to taxes.
ClassesOrdered(tax_of) ==
    /\ RLe(tax_of["III"], tax_of["II"])
    /\ RLe(tax_of["II"], tax_of["I"])
    /\ tax_of["I"] = tax_of["IV"]
    /\ RLe(tax_of["IV"], tax_of["V"])
    /\ RLe(tax_of["V"], tax_of["VI"])

\* C22: for every base tax >= 0 the taxes per class are ordered
\* III <= II <= I = IV <= V <= VI, in tax_per_class of compute_financials and
\* in the page's tax_for_chart, so the class the page reports as the one of
\* the lowest tax is III when the base tax is positive and I, the first key,
\* when it is 0, whatever class is selected.
LowestTaxClass ==
    /\ Returned(fin) /\ RLe(Zero, fin.base_tax) => ClassesOrdered(fin.tax_per_class)
    /\ tax_tab # None /\ RLe(Zero, tax_tab.base_tax)
           => /\ ClassesOrdered(tax_tab.tax_for_chart)
              /\ tax_tab.min_tax_class = (IF RPos(tax_tab.base_tax) THEN "III" ELSE "I")

\* The tax tab has been drawn for class VI selected and a positive base tax:
\* III is reported, with a tax below that of II.
LowestTaxClass_Witness ==
    /\ tax_tab # None /\ Returned(fin)
    /\ tax_tab.selected_tax_class = "VI"
    /\ RPos(tax_tab.base_tax)
    /\ tax_tab.min_tax_class = "III"
    /\ RLt(tax_tab.tax_for_chart["III"], tax_tab.tax_for_chart["II"])

\* The tax tab has been drawn for a base tax of 0 and class V selected: all
\* six taxes are 0 and the first key, I, is reported.
LowestTaxClassOfNoTax ==
    /\ tax_tab # None
    /\ tax_tab.selected_tax_class = "V"
    /\ tax_tab.base_tax = Zero
    /\ \A cls \in TaxClassSet : tax_tab.tax_for_chart[cls] = Zero
    /\ tax_tab.min_tax_class = "I"

=============================================================================
